---- MODULE Spec2Model ----
(***************************************************************************)
(* Verification model of the homework extraction pipeline:                 *)
(*   - BatchProcessor            (src/pipeline/batch.py)                   *)
(*   - EnsembleVisionOCR         (src/pipeline/advanced_vision_ocr.py)     *)
(*   - AdvancedOCREngine/OCREngine selector (src/bot/ocr_engine.py)        *)
(*                                                                         *)
(* Every `await` of the source is a possible suspension point of the       *)
(* asyncio event loop; the code between two awaits runs atomically and is  *)
(* one action.  Optional values (None / value) are sequences of length     *)
(* 0 or 1.                                                                 *)
(***************************************************************************)
EXTENDS Integers, Sequences, FiniteSets, TLC

\* ---------------------------------------------------------------- bounds
MaxItems == 2
MaxWorkers == 2
MaxClock == 1

\* ------------------------------------------------------- optional values
None == << >>
Some(x) == << x >>

\* ------------------------------------------------------------- variables
VARIABLES
    max_workers,        \* BatchProcessor.max_workers
    ai,                 \* BatchProcessor.ai is not None
    phase,              \* position of process_batch: idle, gathering, returned, raised
    progress_callback,  \* the progress_callback supplied: none, one that returns, one that raises
    raised,             \* per item: the exception its ocr / ai / validator call raised, if any
    batch_items,        \* the list of BatchItem records
    task,               \* per item: position of its process_with_limit task
    semaphore,          \* value of the asyncio.Semaphore
    calls,              \* the progress_callback invocations made so far
    result,             \* the BatchResult
    summary,            \* the last get_batch_summary value
    now,                \* the wall clock read by datetime.utcnow() / time.time()
    \* --- EnsembleVisionOCR
    engines,            \* names of self.engines, in insertion order
    ephase,             \* position of extract: idle, single, gather, returned, raised
    etask,              \* per engine: position of its extract_structured call
    ereply,             \* per engine: what its extract_structured call gave, if over
    completion,         \* the engines in the order their calls ended
    valid_results,      \* what _run_all_engines returned
    eresult             \* what extract returned ("result") or raised ("exception")

VARIABLES
    preferred_mode,     \* AdvancedOCREngine.preferred_mode
    vision_ocr,         \* AdvancedOCREngine.vision_ocr: None or the AdvancedVisionOCR built
    legacy,             \* which of _together_ocr, _gemini_ocr, _deepseek_ocr are not None
    traditional,        \* AdvancedOCREngine.traditional: None or the OCREngine built
    sphase,             \* position of process_image: idle, primary, fallback, returned, raised
    spath,              \* the path whose call is awaited
    squeue,             \* _process_legacy_vision: the engines of its loop still to try
    sattempts,          \* _fallback_ocr: the attempts of its loop still to try
    trace,              \* the calls made to engine paths so far, with their outcomes
    sresult             \* what process_image returned or raised

batchVars == << max_workers, ai, phase, progress_callback, raised, batch_items,
                task, semaphore, calls, result, summary, now >>

ensVars == << engines, ephase, etask, ereply, completion, valid_results, eresult >>

VARIABLES
    rtext,              \* the text handed to PIIReductor.redact
    rpasses             \* the successive calls of redact, each on the output of the last

VARIABLES
    adapter,            \* the adapter method called on the text path
    ocr_text,           \* the OCR text handed to it
    tphase,             \* position of the call: idle, awaiting, returned, raised
    attempt,            \* number of the attempt under way (tenacity's attempt_number)
    outcomes,           \* what the provider did on each attempt so far
    sent,               \* the requests transmitted to the provider so far
    tresult             \* what the call returned or raised

VARIABLES
    mresults,           \* the list of (name, raw_text, extraction) given to _ensemble_merge
    mresult             \* what _ensemble_merge returned or raised

VARIABLES
    extraction_dict,    \* the dict given to DataValidator.validate
    vraw_text,          \* the raw text given with it
    vnow,               \* datetime.now() during the call
    vresult             \* the ValidationResult returned, or the exception raised

selVars == << preferred_mode, vision_ocr, legacy, traditional, sphase, spath,
              squeue, sattempts, trace, sresult >>

redVars == << rtext, rpasses >>

adVars == << adapter, ocr_text, tphase, attempt, outcomes, sent, tresult >>

mgVars == << mresults, mresult >>

valVars == << extraction_dict, vraw_text, vnow, vresult >>

vars == << batchVars, ensVars, selVars, redVars, adVars, mgVars, valVars >>

\* what a step of one component leaves alone
notBatch == << ensVars, selVars, redVars, adVars, mgVars, valVars >>
notEns == << batchVars, selVars, redVars, adVars, mgVars, valVars >>
notSel == << batchVars, ensVars, redVars, adVars, mgVars, valVars >>
notRed == << batchVars, ensVars, selVars, adVars, mgVars, valVars >>
notAd == << batchVars, ensVars, selVars, redVars, mgVars, valVars >>
notMg == << batchVars, ensVars, selVars, redVars, adVars, valVars >>
notVal == << batchVars, ensVars, selVars, redVars, adVars, mgVars >>

\* ------------------------------------------------------------ BatchItem
\* the progress_callback argument of process_batch
Callbacks == {"none", "returns", "raises"}

\* dataclass BatchItem with its defaults
BatchItem(id, image_path) ==
    [ id |-> id, image_path |-> image_path,
      ocr_result |-> None, extraction |-> None, validation |-> None,
      status |-> "pending", error |-> None,
      started_at |-> None, completed_at |-> None ]

\* the value self.ocr.process(image_path) returns for an image
OcrProcess(image_path) == [ text |-> << "text-of", image_path >> ]

\* the value self.ai.extract_homework(text, context) returns
ExtractHomework(text) == [ subject |-> << "subject-of", text >>, confidence |-> 8 ]

\* the value self.validator.validate(extraction_dict, text) returns
Validate(extraction, text) == [ valid |-> TRUE, checked |-> extraction, raw_text |-> text ]

\* the exception a collaborator raises for an item, and str(e)
ExceptionOf(stage, image_path) == [ stage |-> stage, msg |-> << stage, "failed-for", image_path >> ]
Str(e) == e.msg

Range(f) == { f[i] : i \in DOMAIN f }

CountStatus(items, S) == Cardinality({ i \in DOMAIN items : items[i].status \in S })

\* mutant: the count taken is that of the items in flight
CompletedCountInFlight(items) == CountStatus(items, {"processing"})

\* line 99: sum(1 for i in batch_items if i.status != "pending")
CompletedCount(items) == CountStatus(items, {"processing", "completed", "failed"})

\* line 100: the arguments of one progress_callback invocation (made by task i)
ProgressCall(items, i) ==
    [ item |-> i, completed |-> CompletedCount(items), total |-> Len(items) ]

\* mutant: the start of an item is not timed
ProcessItemStartNoTimestamp(items, i) ==
    [ items EXCEPT ![i].status = "processing" ]

\* lines 120-121: _process_item up to its first await
ProcessItemStart(items, i) ==
    [ items EXCEPT ![i].status = "processing", ![i].started_at = Some(now) ]

\* mutant: the exception of one item also fails the items in flight beside it
ProcessItemFailSiblings(items, i, e) ==
    [ j \in DOMAIN items |->
        IF j = i \/ items[j].status = "processing"
        THEN [ items[j] EXCEPT !.status = "failed", !.error = Some(Str(e)),
                               !.completed_at = Some(now) ]
        ELSE items[j] ]

\* mutant: completed_at is recorded on the success path only
ProcessItemFailNoTimestamp(items, i, e) ==
    [ items EXCEPT ![i].status = "failed", ![i].error = Some(Str(e)) ]

\* lines 149-155: except Exception / finally of _process_item
ProcessItemFail(items, i, e) ==
    [ items EXCEPT ![i].status = "failed", ![i].error = Some(Str(e)),
                   ![i].completed_at = Some(now) ]

\* lines 147, 154-155: end of the try block / finally of _process_item
ProcessItemComplete(items, i) ==
    [ items EXCEPT ![i].status = "completed", ![i].completed_at = Some(now) ]

\* mutant: no limit on the tasks let in
CanAcquireAlways(value) == TRUE

\* line 96: `async with semaphore` lets a task in only while the value is positive
CanAcquire(value) == value > 0

\* line 104: asyncio.gather(*tasks, return_exceptions=True)
ReturnExceptions == TRUE

\* ------------------------------------------------------------- Init
\* no ensemble call is under way
EnsIdle ==
    /\ engines = << >>
    /\ ephase = "idle"
    /\ etask = << >>
    /\ ereply = << >>
    /\ completion = << >>
    /\ valid_results = << >>
    /\ eresult = None

BatchInit ==
    /\ max_workers \in 1..MaxWorkers
    /\ ai \in BOOLEAN
    /\ phase = "idle"
    /\ progress_callback = "none"
    /\ raised = << >>
    /\ batch_items = << >>
    /\ task = << >>
    /\ semaphore = 0
    /\ calls = << >>
    /\ result = None
    /\ summary = None
    /\ now = 0

\* no batch is under way
BatchIdle ==
    /\ max_workers = 1
    /\ ai = FALSE
    /\ phase = "idle"
    /\ progress_callback = "none"
    /\ raised = << >>
    /\ batch_items = << >>
    /\ task = << >>
    /\ semaphore = 0
    /\ calls = << >>
    /\ result = None
    /\ summary = None
    /\ now = 0

SelIdle ==
    /\ preferred_mode = "auto"
    /\ vision_ocr = None
    /\ legacy = {}
    /\ traditional = None
    /\ sphase = "idle"
    /\ spath = "none"
    /\ squeue = << >>
    /\ sattempts = << >>
    /\ trace = << >>
    /\ sresult = None

RedIdle ==
    /\ rtext = << >>
    /\ rpasses = << >>

AdapterIdle ==
    /\ adapter = "openai"
    /\ ocr_text = << >>
    /\ tphase = "idle"
    /\ attempt = 0
    /\ outcomes = << >>
    /\ sent = << >>
    /\ tresult = None

MergeIdle ==
    /\ mresults = << >>
    /\ mresult = None

ValidatorIdle ==
    /\ extraction_dict = << >>
    /\ vraw_text = ""
    /\ vnow = [ day |-> 0, time |-> 0 ]
    /\ vresult = None

Init == BatchInit /\ EnsIdle /\ SelIdle /\ RedIdle /\ AdapterIdle /\ MergeIdle /\ ValidatorIdle

\* ------------------------------------------------------------- actions
\* process_batch, lines 62-104, up to the gather: builds the items, the result
\* and the semaphore, and creates one process_with_limit task per item
ProcessBatch(n, cb) ==
    /\ phase = "idle"
    /\ phase' = "gathering"
    /\ progress_callback' = cb
    /\ raised' = [ i \in 1..n |-> None ]
    /\ batch_items' = [ i \in 1..n |-> BatchItem(i, i) ]
    /\ result' = Some([ started_at |-> now, completed_at |-> None, total |-> n,
                        successful |-> 0, failed |-> 0, processing_time_ms |-> 0 ])
    /\ semaphore' = max_workers
    /\ task' = [ i \in 1..n |-> "acquire" ]
    /\ UNCHANGED << max_workers, ai, calls, summary, now, notBatch >>

\* mutant: the permit is released after the callback without try/finally, so a
\* raising callback keeps it
ProcessWithLimitExitLeak(i, items) ==
    /\ batch_items' = items
    /\ calls' = IF progress_callback # "none"
                THEN Append(calls, ProgressCall(items, i)) ELSE calls
    /\ task' = [ task EXCEPT ![i] = IF progress_callback = "raises" THEN "raised" ELSE "done" ]
    /\ semaphore' = IF progress_callback = "raises" THEN semaphore ELSE semaphore + 1

\* lines 98-100 and the exit of `async with`: the progress callback (which may
\* itself raise) and the release of the permit
ProcessWithLimitExit(i, items) ==
    /\ batch_items' = items
    /\ calls' = IF progress_callback # "none"
                THEN Append(calls, ProgressCall(items, i)) ELSE calls
    /\ task' = [ task EXCEPT ![i] = IF progress_callback = "raises" THEN "raised" ELSE "done" ]
    /\ semaphore' = semaphore + 1

\* lines 96-97, 120-125: a task acquires a permit and runs _process_item up to
\* `await self.ocr.process(...)`
Acquire(i) ==
    /\ phase = "gathering"
    /\ i \in DOMAIN task
    /\ task[i] = "acquire"
    /\ CanAcquire(semaphore)
    /\ semaphore' = semaphore - 1
    /\ batch_items' = ProcessItemStart(batch_items, i)
    /\ task' = [ task EXCEPT ![i] = "ocr" ]
    /\ UNCHANGED << max_workers, ai, phase, progress_callback, raised, calls,
                    result, summary, now, notBatch >>

\* lines 125-129 (and 147-155 when self.ai is None): self.ocr.process returns
OcrReturns(i) ==
    /\ phase = "gathering"
    /\ i \in DOMAIN task
    /\ task[i] = "ocr"
    /\ LET items1 == [ batch_items EXCEPT ![i].ocr_result =
                                              Some(OcrProcess(batch_items[i].image_path)) ]
       IN IF ai
          THEN /\ batch_items' = items1
               /\ task' = [ task EXCEPT ![i] = "ai" ]
               /\ UNCHANGED << calls, semaphore >>
          ELSE ProcessWithLimitExit(i, ProcessItemComplete(items1, i))
    /\ UNCHANGED << max_workers, ai, phase, progress_callback, raised,
                    result, summary, now, notBatch >>

\* lines 125, 149-155: self.ocr.process raises
OcrRaises(i) ==
    /\ phase = "gathering"
    /\ i \in DOMAIN task
    /\ task[i] = "ocr"
    /\ LET e == ExceptionOf("ocr", batch_items[i].image_path)
       IN /\ raised' = [ raised EXCEPT ![i] = Some(e) ]
          /\ ProcessWithLimitExit(i, ProcessItemFail(batch_items, i, e))
    /\ UNCHANGED << max_workers, ai, phase, progress_callback, result, summary, now, notBatch >>

\* lines 129-147, 154-155: self.ai.extract_homework returns and the validator
\* (called without an await) returns
AiReturns(i) ==
    /\ phase = "gathering"
    /\ i \in DOMAIN task
    /\ task[i] = "ai"
    /\ LET text   == batch_items[i].ocr_result[1].text
           ext    == ExtractHomework(text)
           items1 == [ batch_items EXCEPT ![i].extraction = Some(ext),
                                          ![i].validation = Some(Validate(ext, text)) ]
       IN ProcessWithLimitExit(i, ProcessItemComplete(items1, i))
    /\ UNCHANGED << max_workers, ai, phase, progress_callback, raised,
                    result, summary, now, notBatch >>

\* lines 129-145, 149-155: self.ai.extract_homework returns and the validator
\* raises
ValidateRaises(i) ==
    /\ phase = "gathering"
    /\ i \in DOMAIN task
    /\ task[i] = "ai"
    /\ LET text   == batch_items[i].ocr_result[1].text
           items1 == [ batch_items EXCEPT ![i].extraction = Some(ExtractHomework(text)) ]
           e      == ExceptionOf("validate", batch_items[i].image_path)
       IN /\ raised' = [ raised EXCEPT ![i] = Some(e) ]
          /\ ProcessWithLimitExit(i, ProcessItemFail(items1, i, e))
    /\ UNCHANGED << max_workers, ai, phase, progress_callback, result, summary, now, notBatch >>

\* lines 129, 149-155: self.ai.extract_homework raises
AiRaises(i) ==
    /\ phase = "gathering"
    /\ i \in DOMAIN task
    /\ task[i] = "ai"
    /\ LET e == ExceptionOf("ai", batch_items[i].image_path)
       IN /\ raised' = [ raised EXCEPT ![i] = Some(e) ]
          /\ ProcessWithLimitExit(i, ProcessItemFail(batch_items, i, e))
    /\ UNCHANGED << max_workers, ai, phase, progress_callback, result, summary, now, notBatch >>

\* mutant: the counts are taken from the tasks' results instead of the items
GatherReturnsCountsTasks ==
    /\ phase = "gathering"
    /\ \A i \in DOMAIN task : task[i] \in {"done", "raised"}
    /\ phase' = "returned"
    /\ result' = Some([ result[1] EXCEPT
            !.successful = Cardinality({ i \in DOMAIN task : task[i] = "done" }),
            !.failed = Cardinality({ i \in DOMAIN task : task[i] = "raised" }),
            !.completed_at = Some(now),
            !.processing_time_ms = (now - result[1].started_at) * 1000 ])
    /\ UNCHANGED << max_workers, ai, progress_callback, raised, batch_items, task,
                    semaphore, calls, summary, now, notBatch >>

\* lines 104-116: the gather is over, the counts are taken from the items
GatherReturns ==
    /\ phase = "gathering"
    /\ \A i \in DOMAIN task : task[i] \in {"done", "raised"}
    /\ IF ReturnExceptions \/ \A i \in DOMAIN task : task[i] # "raised"
       THEN /\ phase' = "returned"
            /\ result' = Some([ result[1] EXCEPT
                    !.successful = CountStatus(batch_items, {"completed"}),
                    !.failed = CountStatus(batch_items, {"failed"}),
                    !.completed_at = Some(now),
                    !.processing_time_ms = (now - result[1].started_at) * 1000 ])
       ELSE /\ phase' = "raised"
            /\ UNCHANGED result
    /\ UNCHANGED << max_workers, ai, progress_callback, raised, batch_items, task,
                    semaphore, calls, summary, now, notBatch >>

\* the wall clock advances
Tick ==
    /\ now < MaxClock
    /\ now' = now + 1
    /\ UNCHANGED << max_workers, ai, phase, progress_callback, raised, batch_items,
                    task, semaphore, calls, result, summary, notBatch >>

\* Python's round(x, n) and the "{:.1f}" format on num/den: nearest integer,
\* ties to even
RoundHalfEven(num, den) ==
    LET q == num \div den
        r == num % den
    IN IF 2 * r < den THEN q
       ELSE IF 2 * r > den THEN q + 1
       ELSE IF q % 2 = 0 THEN q ELSE q + 1

\* lines 157-169: get_batch_summary; success_rate in tenths of a percent
\* (None for "N/A"), the two time figures in hundredths
get_batch_summary(r) ==
    [ total_processed |-> r.total,
      successful |-> r.successful,
      failed |-> r.failed,
      success_rate |-> IF r.total > 0
                       THEN Some(RoundHalfEven(r.successful * 1000, r.total))
                       ELSE None,
      processing_time_sec |-> RoundHalfEven(r.processing_time_ms, 10),
      items_per_second |-> IF r.processing_time_ms > 0
                           THEN RoundHalfEven(r.total * 100000, r.processing_time_ms)
                           ELSE 0 ]

\* the caller asks for the summary of the returned BatchResult
GetBatchSummary ==
    /\ phase = "returned"
    /\ summary = None
    /\ summary' = Some(get_batch_summary(result[1]))
    /\ UNCHANGED << max_workers, ai, phase, progress_callback, raised, batch_items,
                    task, semaphore, calls, result, now, notBatch >>

Next ==
    \/ \E n \in 0..MaxItems, cb \in Callbacks : ProcessBatch(n, cb)
    \/ \E i \in 1..MaxItems : Acquire(i)
    \/ \E i \in 1..MaxItems : OcrReturns(i)
    \/ \E i \in 1..MaxItems : OcrRaises(i)
    \/ \E i \in 1..MaxItems : AiReturns(i)
    \/ \E i \in 1..MaxItems : ValidateRaises(i)
    \/ \E i \in 1..MaxItems : AiRaises(i)
    \/ GatherReturns
    \/ GetBatchSummary
    \/ Tick

Spec == Init /\ [][Next]_vars

\* the event loop runs every ready task and every awaited call returns or
\* raises: a step of the batch that stays possible is eventually taken
BatchStep ==
    \/ \E i \in 1..MaxItems : Acquire(i)
    \/ \E i \in 1..MaxItems : OcrReturns(i) \/ OcrRaises(i)
    \/ \E i \in 1..MaxItems : AiReturns(i) \/ ValidateRaises(i) \/ AiRaises(i)
    \/ GatherReturns

\* one batch run to its return; no guard of the batch reads the clock, so the
\* clock stands still here
FairNext ==
    \/ \E n \in 0..MaxItems, cb \in Callbacks : ProcessBatch(n, cb)
    \/ BatchStep

FairSpec == Init /\ [][FairNext]_vars /\ WF_vars(BatchStep)

\* ========================================================== properties
Terminal == {"completed", "failed"}

Items == DOMAIN batch_items

TaskOver(i) == task[i] \in {"done", "raised"}

\* what a completed item carries when nothing raised for it
OwnResults(i) ==
    LET it   == batch_items[i]
        ocr  == OcrProcess(it.image_path)
        ext  == ExtractHomework(ocr.text)
    IN /\ it.ocr_result = Some(ocr)
       /\ it.extraction = IF ai THEN Some(ext) ELSE None
       /\ it.validation = IF ai THEN Some(Validate(ext, ocr.text)) ELSE None

\* C1: an item whose processing raised ends 'failed' with error = the exception
\* message; every item whose own processing raised nothing ends 'completed' with
\* its own results, whatever happened to its siblings and in every interleaving;
\* the batch is not aborted (process_batch returns, with every item terminal).
C1_FailureIsolated ==
    /\ phase # "raised"
    /\ \A i \in Items :
          /\ raised[i] # None =>
                /\ batch_items[i].status = "failed"
                /\ batch_items[i].error = Some(Str(raised[i][1]))
          /\ raised[i] = None =>
                /\ batch_items[i].status # "failed"
                /\ batch_items[i].error = None
                /\ TaskOver(i) => batch_items[i].status = "completed" /\ OwnResults(i)
          /\ phase = "returned" => TaskOver(i)

C1_Witness ==
    /\ phase = "returned"
    /\ max_workers >= 2
    /\ \E i, j \in Items :
          /\ i < j
          /\ batch_items[i].status = "failed"
          /\ batch_items[j].status = "completed"
          /\ batch_items[j].started_at = batch_items[i].started_at

\* C2: the number of items in flight ('processing') never exceeds max_workers;
\* it is bounded by the permits taken, and an item that has no permit is 'pending'.
C2_BoundedInFlight ==
    phase \in {"gathering", "returned"} =>
        /\ semaphore >= 0
        /\ CountStatus(batch_items, {"processing"}) <= max_workers - semaphore
        /\ CountStatus(batch_items, {"processing"}) <= max_workers
        /\ \A i \in Items : task[i] = "acquire" <=> batch_items[i].status = "pending"

C2_Witness ==
    /\ Len(batch_items) > max_workers
    /\ CountStatus(batch_items, {"processing"}) = max_workers
    /\ CountStatus(batch_items, {"pending"}) > 0
    /\ semaphore = 0

\* C3: an item is created 'pending'; its status changes only pending -> processing
\* (in the step that takes a permit, which records started_at) and processing ->
\* completed | failed (which records completed_at); a terminal status never changes.
C3_Lifecycle ==
    [][ /\ \A i \in DOMAIN batch_items' :
              i \notin Items =>
                  /\ batch_items'[i].status = "pending"
                  /\ batch_items'[i].started_at = None
                  /\ batch_items'[i].completed_at = None
        /\ \A i \in Items :
              LET a == batch_items[i]
                  b == batch_items'[i]
              IN /\ i \in DOMAIN batch_items'
                 /\ a.status = b.status =>
                       /\ a.started_at = b.started_at
                       /\ a.completed_at = b.completed_at
                 /\ a.status # b.status =>
                       \/ /\ a.status = "pending"
                          /\ b.status = "processing"
                          /\ semaphore > 0
                          /\ semaphore' = semaphore - 1
                          /\ b.started_at = Some(now)
                          /\ b.completed_at = None
                       \/ /\ a.status = "processing"
                          /\ b.status \in Terminal
                          /\ b.started_at = a.started_at
                          /\ b.completed_at = Some(now)
      ]_vars

C3_Witness ==
    \E i, j \in Items :
        /\ batch_items[i].status = "failed"
        /\ batch_items[i].started_at = Some(0)
        /\ batch_items[i].completed_at = Some(1)
        /\ batch_items[j].status = "completed"
        /\ batch_items[j].started_at = Some(1)

AllTerminal == \A i \in Items : batch_items[i].status \in Terminal

\* C4: when every awaited call eventually returns or raises, a started batch
\* eventually returns a BatchResult with every item terminal, also with more
\* items than permits and when every item fails; no exception ever reaches the
\* caller of process_batch.
C4_BatchTerminates ==
    /\ [](phase # "raised")
    /\ (phase = "gathering") ~> (phase = "returned" /\ result # None /\ AllTerminal)

C4_Witness ==
    /\ phase = "returned"
    /\ Len(batch_items) > max_workers
    /\ progress_callback = "raises"
    /\ \A i \in Items : batch_items[i].status = "failed"

\* C5: every progress_callback invocation passes the number of items that are
\* terminal at the moment of the call, and the batch size.
C5_CompletedCountIsTerminalCount ==
    [][ calls' # calls =>
            LET c == calls'[Len(calls')]
            IN /\ c.completed = CountStatus(batch_items', Terminal)
               /\ c.total = Len(batch_items')
      ]_vars

\* C6: with a progress_callback, each item's task invokes it exactly once, after
\* the item is terminal, and the completed_count values never decrease from one
\* invocation to the next.
C6_CallbackOncePerItem ==
    /\ progress_callback = "none" => calls = << >>
    /\ progress_callback # "none" =>
          /\ \A i \in Items :
                Cardinality({ k \in DOMAIN calls : calls[k].item = i })
                    = IF TaskOver(i) THEN 1 ELSE 0
          /\ \A k \in DOMAIN calls :
                /\ calls[k].item \in Items
                /\ batch_items[calls[k].item].status \in Terminal
          /\ \A j, k \in DOMAIN calls : j < k => calls[j].completed <= calls[k].completed

C6_Witness ==
    /\ phase = "returned"
    /\ Len(calls) = 2
    /\ calls[1].item = 2
    /\ calls[1].completed = 1
    /\ calls[2].completed = 2

Get(d, k, default) == IF k \in DOMAIN d THEN d[k] ELSE default

\* str.lower() on the strings the replies use
Lower(str) ==
    CASE str = "Ruler" -> "ruler"
      [] str = "Mathematics" -> "mathematics"
      [] str = "Alchemy" -> "alchemy"
      [] str = "PEN" -> "pen"
      [] OTHER -> str

\* the confidence values of the source, in hundredths
ConfStructured == 90
ConfGeminiFallback == 70
ConfMergeCap == 95
ConfMergeBase == 80
ConfMergePerEngine == 10

\* dataclass HomeworkExtraction with its defaults
HomeworkExtraction ==
    [ subject |-> "", title |-> "", description |-> "",
      due_date |-> None, due_date_normalized |-> None,
      assignments |-> << >>, materials_needed |-> << >>,
      estimated_time |-> None, priority |-> "normal",
      raw_text |-> "", confidence |-> 0, extraction_metadata |-> << >> ]

\* JSON objects a provider may answer with
JsonA ==
    [ subject |-> "Mathematics", title |-> "Algebra Homework",
      description |-> "Do exercise 1", due_date |-> Some("2024-12-25"),
      assignments |-> << [ task |-> "ex1" ] >>,
      materials_needed |-> << "Ruler" >>, priority |-> "normal" ]
JsonB ==
    [ subject |-> "Mathematics", title |-> "Algebra Homework",
      description |-> "Do exercises 1 and 2", due_date |-> Some("2024-12-26"),
      due_date_normalized |-> Some("2024-12-26"),
      assignments |-> << [ task |-> "ex1" ], [ task |-> "ex2" ] >>,
      materials_needed |-> << "ruler", "PEN" >>, estimated_time |-> Some("30 min"),
      priority |-> "urgent" ]
JsonC == [ title |-> "Reading", priority |-> "high" ]
JsonD == [ title |-> "Quiz", priority |-> "medium" ]

\* json.dumps(data): the text of a JSON object
Dumps(data) ==
    CASE data = JsonA -> "{A}"
      [] data = JsonB -> "{B}"
      [] data = JsonC -> "{C}"
      [] data = JsonD -> "{D}"

\* _dict_to_extraction (the same in TogetherAIVision and GeminiVision)
DictToExtraction(data) ==
    [ HomeworkExtraction EXCEPT
        !.subject = Get(data, "subject", ""),
        !.title = Get(data, "title", ""),
        !.description = Get(data, "description", ""),
        !.due_date = Get(data, "due_date", None),
        !.due_date_normalized = Get(data, "due_date_normalized", None),
        !.assignments = Get(data, "assignments", << >>),
        !.materials_needed = Get(data, "materials_needed", << >>),
        !.estimated_time = Get(data, "estimated_time", None),
        !.priority = Get(data, "priority", "normal"),
        !.raw_text = Dumps(data),
        !.confidence = ConfStructured ]

\* what a provider's HTTP call gives: a body that is JSON, JSON in a markdown
\* fence, or free text; or a transport failure
Contents ==
    { [ kind |-> "json", data |-> d, text |-> Dumps(d) ] : d \in {JsonA, JsonB, JsonC, JsonD} }
    \cup { [ kind |-> "fenced", data |-> JsonB, text |-> "[json-fence]{B}[fence]" ],
           [ kind |-> "text", text |-> "sorry, I cannot read this" ],
           [ kind |-> "transport_error" ] }

\* the text of a body
ContentText(c) == c.text

Result(raw_text, extraction) ==
    [ kind |-> "result", raw_text |-> raw_text, extraction |-> extraction ]
Exception(type, msg) == [ kind |-> "exception", type |-> type, msg |-> msg ]

\* TogetherAIVision.extract_structured, lines 238-262
TogetherExtractStructured(c) ==
    IF c.kind = "transport_error" THEN Exception("HTTPError", "together: request failed")
    ELSE IF c.kind \in {"json", "fenced"}
         THEN Result(Get(c.data, "description", ContentText(c)), DictToExtraction(c.data))
         ELSE Exception("JSONDecodeError", "together: body is not JSON")

\* GeminiVision.extract_structured, lines 319-344
GeminiExtractStructured(c) ==
    IF c.kind = "transport_error" THEN Exception("APIError", "gemini: request failed")
    ELSE IF c.kind \in {"json", "fenced"}
         THEN Result(Get(c.data, "description", ContentText(c)), DictToExtraction(c.data))
         ELSE Result(ContentText(c),
                     [ HomeworkExtraction EXCEPT !.description = ContentText(c),
                                                 !.raw_text = ContentText(c),
                                                 !.confidence = ConfGeminiFallback ])

ExtractStructured(name, c) ==
    IF name = "together" THEN TogetherExtractStructured(c) ELSE GeminiExtractStructured(c)

\* VisionOCRResult
VisionOCRResult(text, structured, confidence, engine) ==
    [ kind |-> "result", text |-> text, structured |-> structured,
      confidence |-> confidence, engine |-> engine ]

Occurrences(values, v) == Cardinality({ k \in DOMAIN values : values[k] = v })

Min(a, b) == IF a <= b THEN a ELSE b

\* mutant: among the values with the highest count, the last one seen
VoteFieldLastSeen(values) ==
    IF values = << >> THEN ""
    ELSE LET best == CHOOSE k \in DOMAIN values :
                        /\ \A j \in DOMAIN values :
                              Occurrences(values, values[j]) <= Occurrences(values, values[k])
                        /\ \A j \in (k + 1)..Len(values) : values[j] # values[k]
                        /\ \A j \in (k + 1)..Len(values) :
                              Occurrences(values, values[j]) < Occurrences(values, values[k])
         IN values[best]

\* _vote_field, lines 510-515: Counter(values).most_common(1)[0][0], the first
\* value among those with the highest count
VoteField(values) ==
    IF values = << >> THEN ""
    ELSE LET best == CHOOSE k \in DOMAIN values :
                        /\ \A j \in DOMAIN values :
                              Occurrences(values, values[j]) <= Occurrences(values, values[k])
                        /\ \A j \in 1..(k - 1) :
                              Occurrences(values, values[j]) < Occurrences(values, values[k])
         IN values[best]

\* _vote_longest, lines 517-521: max(values, key=len), the first longest
VoteLongest(values) ==
    IF values = << >> THEN ""
    ELSE LET best == CHOOSE k \in DOMAIN values :
                        /\ \A j \in DOMAIN values : Len(values[j]) <= Len(values[k])
                        /\ \A j \in 1..(k - 1) : Len(values[j]) < Len(values[k])
         IN values[best]

\* truthiness of an Optional[str]
Truthy(opt) == opt # None /\ opt[1] # ""

\* _extract_first, lines 523-528
ExtractFirst(values) ==
    IF \E k \in DOMAIN values : Truthy(values[k])
    THEN values[CHOOSE k \in DOMAIN values :
                    Truthy(values[k]) /\ \A j \in 1..(k - 1) : ~Truthy(values[j])]
    ELSE None

\* concatenation of a list of lists
RECURSIVE Flatten(_)
Flatten(lists) ==
    IF lists = << >> THEN << >> ELSE Head(lists) \o Flatten(Tail(lists))

\* _merge_assignments, lines 530-540
RECURSIVE MergeAssignmentsFrom(_, _, _)
MergeAssignmentsFrom(todo, seen, merged) ==
    IF todo = << >> THEN merged
    ELSE LET a == Head(todo)
             t == Get(a, "task", "")
         IN IF t # "" /\ t \notin seen
            THEN MergeAssignmentsFrom(Tail(todo), seen \cup {t}, Append(merged, a))
            ELSE MergeAssignmentsFrom(Tail(todo), seen, merged)

MergeAssignments(assignment_lists) ==
    MergeAssignmentsFrom(Flatten(assignment_lists), {}, << >>)

\* _unique_list, lines 542-550
RECURSIVE UniqueListFrom(_, _, _)
UniqueListFrom(todo, seen, out) ==
    IF todo = << >> THEN out
    ELSE LET item == Head(todo)
         IN IF item # "" /\ Lower(item) \notin seen
            THEN UniqueListFrom(Tail(todo), seen \cup {Lower(item)}, Append(out, item))
            ELSE UniqueListFrom(Tail(todo), seen, out)

UniqueList(items) == UniqueListFrom(items, {}, << >>)

\* mutant: the priority of the first result
VotePriorityFirstReported(priorities) ==
    IF priorities = << >> THEN "normal" ELSE priorities[1]

\* _vote_priority, lines 552-560
VotePriority(priorities) ==
    IF priorities = << >> THEN "normal"
    ELSE IF "urgent" \in Range(priorities) THEN "urgent"
    ELSE IF "high" \in Range(priorities) THEN "high"
    ELSE IF "normal" \in Range(priorities) THEN "normal"
    ELSE IF "low" \in Range(priorities) THEN "low"
    ELSE "normal"

\* line 490: "\n\n".join(f"[{r[0]}]: {r[1]}" for r in results)
RECURSIVE JoinLabelled(_)
JoinLabelled(results) ==
    IF results = << >> THEN ""
    ELSE LET r == Head(results)
             label == "[" \o r.name \o "]: " \o r.raw_text
         IN IF Tail(results) = << >> THEN label
            ELSE label \o "\n\n" \o JoinLabelled(Tail(results))

\* line 506: ','.join(r[0] for r in results)
RECURSIVE JoinNames(_)
JoinNames(results) ==
    IF results = << >> THEN ""
    ELSE IF Tail(results) = << >> THEN Head(results).name
    ELSE Head(results).name \o "," \o JoinNames(Tail(results))

\* the values of an Optional[str] field that are truthy, in input order
TruthyValues(opts) ==
    LET kept == SelectSeq(opts, Truthy)
    IN [ k \in DOMAIN kept |-> kept[k][1] ]

NonEmpty(str) == str # ""

\* mutant: the confidence without its cap
MergeConfidenceUncapped(n) == ConfMergeBase + ConfMergePerEngine * n

\* line 491: min(0.95, 0.8 + 0.1 * len(results)), in hundredths
MergeConfidence(n) == Min(ConfMergeCap, ConfMergeBase + ConfMergePerEngine * n)

\* _ensemble_merge, lines 453-508; results is a list of (name, raw_text, extraction)
EnsembleMerge(results) ==
    IF results = << >> THEN Exception("RuntimeError", "All engines failed")
    ELSE IF Len(results) = 1
    THEN VisionOCRResult(results[1].raw_text, results[1].extraction,
                         results[1].extraction.confidence, results[1].name)
    ELSE LET ext(k) == results[k].extraction
             all(F(_)) == [ k \in DOMAIN results |-> F(ext(k)) ]
             subjectOf(e) == e.subject
             titleOf(e) == e.title
             descriptionOf(e) == e.description
             dueOf(e) == e.due_date
             normOf(e) == e.due_date_normalized
             assignmentsOf(e) == e.assignments
             materialsOf(e) == e.materials_needed
             timeOf(e) == e.estimated_time
             priorityOf(e) == e.priority
             subjects == SelectSeq(all(subjectOf), NonEmpty)
             titles == SelectSeq(all(titleOf), NonEmpty)
             descriptions == SelectSeq(all(descriptionOf), NonEmpty)
             due_dates == TruthyValues(all(dueOf))
             merged ==
                [ subject |-> VoteField(subjects),
                  title |-> VoteField(titles),
                  description |-> VoteLongest(descriptions),
                  due_date |-> Some(VoteField(due_dates)),
                  due_date_normalized |-> ExtractFirst(all(normOf)),
                  assignments |-> MergeAssignments(all(assignmentsOf)),
                  materials_needed |-> UniqueList(Flatten(all(materialsOf))),
                  estimated_time |-> Some(VoteField(TruthyValues(all(timeOf)))),
                  priority |-> VotePriority(all(priorityOf)),
                  raw_text |-> JoinLabelled(results),
                  confidence |-> MergeConfidence(Len(results)),
                  extraction_metadata |->
                      << [ engines_used |-> [ k \in DOMAIN results |-> results[k].name ],
                           vote_counts |-> [ subject |-> Len(subjects),
                                             title |-> Len(titles),
                                             description |-> Len(descriptions) ] ] >> ]
         IN VisionOCRResult(merged.description, merged, merged.confidence,
                            "ensemble(" \o JoinNames(results) \o ")")

\* mutant: the results are collected in the order the calls completed
ValidResultsInCompletionOrder(names, replies) ==
    LET good == SelectSeq(completion, LAMBDA n : replies[n][1].kind = "result")
    IN [ k \in DOMAIN good |-> [ name |-> good[k], raw_text |-> replies[good[k]][1].raw_text,
                                 extraction |-> replies[good[k]][1].extraction ] ]

\* mutant: the collection stops at the first engine that failed
RECURSIVE ValidResultsStopAtFailure(_, _)
ValidResultsStopAtFailure(names, replies) ==
    IF names = << >> THEN << >>
    ELSE LET r == replies[Head(names)][1]
         IN IF r.kind = "exception" THEN << >>
            ELSE << [ name |-> Head(names), raw_text |-> r.raw_text,
                      extraction |-> r.extraction ] >>
                 \o ValidResultsStopAtFailure(Tail(names), replies)

\* _run_all_engines, lines 443-451: the results that are no exception, in the
\* order of engine_names
RECURSIVE ValidResults(_, _)
ValidResults(names, replies) ==
    IF names = << >> THEN << >>
    ELSE LET r == replies[Head(names)][1]
             rest == ValidResults(Tail(names), replies)
         IN IF r.kind = "exception" THEN rest
            ELSE << [ name |-> Head(names), raw_text |-> r.raw_text,
                      extraction |-> r.extraction ] >> \o rest

\* ------------------------------------------------------------- Init
\* EnsembleVisionOCR.__init__, lines 366-388: one engine per API key given;
\* without any key the constructor raises ValueError
EnsembleInit ==
    /\ \E together_api_key, gemini_api_key \in BOOLEAN :
          /\ engines = (IF together_api_key THEN << "together" >> ELSE << >>)
                       \o (IF gemini_api_key THEN << "gemini" >> ELSE << >>)
          /\ ephase = IF together_api_key \/ gemini_api_key THEN "idle" ELSE "init_raised"
    /\ etask = << >>
    /\ ereply = << >>
    /\ completion = << >>
    /\ valid_results = << >>
    /\ eresult = None

\* ------------------------------------------------------------- actions
\* extract, lines 390-403 and 415, 433-441: the call up to its first await
Extract(use_ensemble) ==
    /\ ephase = "idle"
    /\ LET called == IF ~use_ensemble \/ Len(engines) = 1
                     THEN { Head(engines) } ELSE Range(engines)
       IN /\ ephase' = IF ~use_ensemble \/ Len(engines) = 1 THEN "single" ELSE "gather"
          /\ etask' = [ n \in called |-> "created" ]
          /\ ereply' = [ n \in called |-> None ]
    /\ UNCHANGED << engines, completion, valid_results, eresult, notEns >>

EngineOver(name, reply) ==
    /\ etask' = [ etask EXCEPT ![name] = "done" ]
    /\ ereply' = [ ereply EXCEPT ![name] = Some(reply) ]
    /\ completion' = Append(completion, name)
    /\ UNCHANGED << engines, ephase, valid_results, eresult, notEns >>

\* lines 205 / 313: the image cannot be read, the call raises before any request
EngineRaisesEarly(name) ==
    /\ ephase \in {"single", "gather"}
    /\ name \in DOMAIN etask
    /\ etask[name] = "created"
    /\ EngineOver(name, Exception("OSError", name \o ": cannot open image"))

\* lines 205-239: TogetherAIVision suspends at `await client.post`
EngineSuspends(name) ==
    /\ ephase \in {"single", "gather"}
    /\ name \in DOMAIN etask
    /\ name = "together"
    /\ etask[name] = "created"
    /\ etask' = [ etask EXCEPT ![name] = "running" ]
    /\ UNCHANGED << engines, ephase, ereply, completion, valid_results, eresult, notEns >>

\* lines 239-262 (the request of TogetherAIVision is answered) and lines 313-344
\* (GeminiVision, whose call has no await, runs from start to end)
EngineCompletes(name, c) ==
    /\ ephase \in {"single", "gather"}
    /\ name \in DOMAIN etask
    /\ etask[name] = IF name = "together" THEN "running" ELSE "created"
    /\ EngineOver(name, ExtractStructured(name, c))

\* lines 403-412: the single engine's call is over
SingleReturns ==
    /\ ephase = "single"
    /\ \A n \in DOMAIN etask : etask[n] = "done"
    /\ LET name == Head(engines)
           r == ereply[name][1]
       IN IF r.kind = "exception"
          THEN ephase' = "raised" /\ eresult' = Some(r)
          ELSE /\ ephase' = "returned"
               /\ eresult' = Some(VisionOCRResult(r.raw_text, r.extraction,
                                                  r.extraction.confidence, name))
    /\ UNCHANGED << engines, etask, ereply, completion, valid_results, notEns >>

\* lines 441-451 and 416-425: the gather is over, the valid results are merged
RunAllEnginesReturns ==
    /\ ephase = "gather"
    /\ \A n \in DOMAIN etask : etask[n] = "done"
    /\ valid_results' = ValidResults(engines, ereply)
    /\ LET merged == EnsembleMerge(valid_results')
       IN IF merged.kind = "exception"
          THEN ephase' = "raised" /\ eresult' = Some(merged)
          ELSE /\ ephase' = "returned"
               /\ eresult' = Some(VisionOCRResult(merged.structured.description,
                                                  merged.structured, merged.confidence,
                                                  "ensemble"))
    /\ UNCHANGED << engines, etask, ereply, completion, notEns >>

EngineNames == {"together", "gemini"}

EnsembleNext ==
    \/ \E use_ensemble \in BOOLEAN : Extract(use_ensemble)
    \/ \E name \in EngineNames : EngineRaisesEarly(name)
    \/ \E name \in EngineNames : EngineSuspends(name)
    \/ \E name \in EngineNames, c \in Contents : EngineCompletes(name, c)
    \/ SingleReturns
    \/ RunAllEnginesReturns

EnsembleStart == BatchIdle /\ EnsembleInit /\ SelIdle /\ RedIdle /\ AdapterIdle /\ MergeIdle /\ ValidatorIdle

EnsembleSpec == EnsembleStart /\ [][EnsembleNext]_vars

\* ------------------------------------------------------------- C8
Succeeded(name) == ereply[name] # None /\ ereply[name][1].kind = "result"

Failed(name) == ereply[name] # None /\ ereply[name][1].kind = "exception"

GatherOver == ephase \in {"returned", "raised"} /\ Cardinality(DOMAIN etask) > 1

\* C8: within one ensemble invocation every configured engine is started; an
\* engine that failed neither cancels a sibling nor keeps its result out: once
\* the gather is over every engine's call is over, the merge input holds exactly
\* the engines that returned successfully (each once, with its own reply), and
\* the invocation raises only when no engine succeeded.
C8_FailureDoesNotCancelSiblings ==
    /\ ephase = "gather" =>
          /\ DOMAIN etask = Range(engines)
          /\ \A n \in DOMAIN etask :
                (etask[n] = "done") = (ereply[n] # None)
    /\ GatherOver =>
          /\ DOMAIN etask = Range(engines)
          /\ \A n \in DOMAIN etask : etask[n] = "done"
          /\ { valid_results[k].name : k \in DOMAIN valid_results }
                = { n \in Range(engines) : Succeeded(n) }
          /\ Len(valid_results) = Cardinality({ n \in Range(engines) : Succeeded(n) })
          /\ \A k \in DOMAIN valid_results :
                /\ valid_results[k].raw_text = ereply[valid_results[k].name][1].raw_text
                /\ valid_results[k].extraction = ereply[valid_results[k].name][1].extraction
          /\ (\E n \in Range(engines) : Succeeded(n)) => ephase = "returned"
          /\ ephase = "raised" =>
                /\ \A n \in Range(engines) : Failed(n)
                /\ eresult = Some(Exception("RuntimeError", "All engines failed"))

\* the first engine failed, its sibling succeeded afterwards and alone reached
\* the merge, and the invocation returned
C8_Witness ==
    /\ GatherOver
    /\ ephase = "returned"
    /\ Failed("together")
    /\ Succeeded("gemini")
    /\ completion = << "together", "gemini" >>
    /\ Len(valid_results) = 1
    /\ valid_results[1].name = "gemini"

\* ------------------------------------------------- AdvancedOCREngine
Modes == {"auto", "ensemble", "vision", "traditional"}

\* the order in which _init_legacy_vision builds and _process_legacy_vision lists
LegacyOrder == << "together", "gemini", "deepseek" >>

\* dataclass OCResult (text and confidence, in hundredths)
OCResult(text, confidence) == [ kind |-> "result", text |-> text, confidence |-> confidence ]

Texts == {"", "p.5", "Math: do page 5"}

ConfLegacyLong == 90
ConfLegacyShort == 70
ConfLegacyLongerThan == 10
ConfDeepSeek == 85
ConfGemini == 90

\* the OCResult a legacy engine builds from the text its API answered:
\* TogetherAIOCR lines 142-147, GeminiOCR line 312, DeepSeekOCR line 230
LegacyResult(name, text) ==
    OCResult(text,
             CASE name = "together" ->
                     IF Len(text) > ConfLegacyLongerThan THEN ConfLegacyLong ELSE ConfLegacyShort
               [] name = "gemini" -> ConfGemini
               [] OTHER -> ConfDeepSeek)

\* mutant: mode auto prefers the traditional engines to the vision engines
SelectModeTraditionalFirst ==
    IF preferred_mode = "traditional" THEN "traditional"
    ELSE IF preferred_mode \in {"vision", "ensemble"}
         THEN (IF vision_ocr # None THEN "advanced_vision" ELSE "legacy_vision")
    ELSE IF traditional # None THEN "traditional"
    ELSE IF vision_ocr # None THEN "advanced_vision"
    ELSE IF legacy # {} THEN "legacy_vision"
    ELSE "none"

\* _select_mode, lines 848-863
SelectMode ==
    IF preferred_mode = "traditional" THEN "traditional"
    ELSE IF preferred_mode = "vision"
         THEN (IF vision_ocr # None THEN "advanced_vision" ELSE "legacy_vision")
    ELSE IF preferred_mode = "ensemble"
         THEN (IF vision_ocr # None THEN "advanced_vision" ELSE "legacy_vision")
    ELSE IF vision_ocr # None THEN "advanced_vision"
    ELSE IF legacy # {} THEN "legacy_vision"
    ELSE IF traditional # None THEN "traditional"
    ELSE "none"

\* _process_legacy_vision, lines 888-894
LegacyEngines ==
    LET built(n) == n \in legacy
    IN SelectSeq(LegacyOrder, built)

\* mutant: the traditional attempt is listed first
FallbackAttemptsTraditionalFirst ==
    (IF traditional # None THEN << "traditional" >> ELSE << >>)
    \o (IF vision_ocr # None THEN << "advanced_vision" >> ELSE << >>)
    \o (IF legacy # {} THEN << "legacy_vision" >> ELSE << >>)

\* _fallback_ocr, lines 918-925
FallbackAttempts ==
    (IF vision_ocr # None THEN << "advanced_vision" >> ELSE << >>)
    \o (IF legacy # {} THEN << "legacy_vision" >> ELSE << >>)
    \o (IF traditional # None THEN << "traditional" >> ELSE << >>)

\* where process_image stands: phase, awaited path, loops' remainders, outcome
Ctl(ph, pa, q, at, res) ==
    [ sphase |-> ph, spath |-> pa, squeue |-> q, sattempts |-> at, sresult |-> res ]

Returned(r) == Ctl("returned", "none", << >>, << >>, Some(r))

Raised(e) == Ctl("raised", "none", << >>, << >>, Some(e))

\* the call of a path up to its first await
Enter(ph, pa, at) ==
    Ctl(ph, pa, IF pa = "legacy_vision" THEN LegacyEngines ELSE << >>, at, None)

\* _fallback_ocr, lines 927-935: the loop from the given attempts on
RECURSIVE FallbackFrom(_)
FallbackFrom(attempts) ==
    IF attempts = << >> THEN Raised(Exception("RuntimeError", "All OCR engines failed"))
    ELSE IF Head(attempts) = "legacy_vision" /\ LegacyEngines = << >>
         THEN FallbackFrom(Tail(attempts))
    ELSE Enter("fallback", Head(attempts), Tail(attempts))

\* lines 844-846 (the primary path raised) and 931-933 (a fallback attempt raised)
PathFailed ==
    IF sphase = "primary" THEN FallbackFrom(FallbackAttempts) ELSE FallbackFrom(sattempts)

Apply(ctl) ==
    /\ sphase' = ctl.sphase
    /\ spath' = ctl.spath
    /\ squeue' = ctl.squeue
    /\ sattempts' = ctl.sattempts
    /\ sresult' = ctl.sresult

Call(pa, engine, outcome, detail) ==
    [ phase |-> sphase, path |-> pa, engine |-> engine, outcome |-> outcome,
      detail |-> detail ]

\* mutant: the first result is taken for the most confident
MostConfidentIsFirst(results, best) == best

\* OCREngine._merge_results and _smart_merge_texts, lines 652-680
\* max(results, key=lambda r: r["confidence"]): the first of the highest
RECURSIVE MostConfident(_, _)
MostConfident(results, best) ==
    IF results = << >> THEN best
    ELSE MostConfident(Tail(results),
                       IF Head(results).confidence > best.confidence
                       THEN Head(results) ELSE best)

\* max(texts, key=len): the first of the longest
RECURSIVE LongestText(_, _)
LongestText(results, best) ==
    IF results = << >> THEN best
    ELSE LongestText(Tail(results),
                     IF Len(Head(results).text) > Len(best.text)
                     THEN Head(results) ELSE best)

MergeResults(results) ==
    IF results = << >> THEN [ text |-> "", confidence |-> 0 ]
    ELSE IF Len(results) = 1 THEN [ text |-> results[1].text, confidence |-> results[1].confidence ]
    ELSE [ text |-> LongestText(Tail(results), Head(results)).text,
           confidence |-> MostConfident(Tail(results), Head(results)).confidence ]

\* what _run_easyocr / _run_tesseract can do on an image
EngineRuns ==
    { Exception("RuntimeError", "engine crashed") }
    \cup { OCResult("p.5", 60), OCResult("Math: do page 5", 40) }

\* the runs _process_traditional makes once the image is loaded, lines 494-506
TraditionalRuns(t, easy, tess) ==
    (IF t.easyocr_reader THEN << [ engine |-> "easyocr", outcome |-> easy ] >> ELSE << >>)
    \o (IF t.tesseract_available THEN << [ engine |-> "tesseract", outcome |-> tess ] >> ELSE << >>)

\* OCREngine._process_traditional, lines 480-520
ProcessTraditional(t, load, easy, tess) ==
    IF load = "raises" THEN Exception("ValueError", "Failed to load image")
    ELSE LET runs == TraditionalRuns(t, easy, tess)
             ok(r) == r.outcome.kind = "result"
             good == SelectSeq(runs, ok)
             merged == MergeResults([ k \in DOMAIN good |-> good[k].outcome ])
         IN OCResult(merged.text, merged.confidence)

\* OCREngine.process_image with preferred_engine easyocr or tesseract, lines
\* 452-478, and OCREngine._fallback_ocr without vision engines, lines 522-543
TraditionalProcessImage(t, load, reload, easy, tess) ==
    LET first == ProcessTraditional(t, load, easy, tess)
    IN IF first.kind = "result" THEN first
       ELSE IF t.easyocr_reader
               /\ ProcessTraditional(t, reload, easy, tess).kind = "result"
            THEN ProcessTraditional(t, reload, easy, tess)
       ELSE Exception("RuntimeError", "All OCR engines failed!")

\* the engine runs behind one call of the traditional path
TraditionalDetail(t, load, reload, easy, tess) ==
    IF load = "ok" \/ (t.easyocr_reader /\ reload = "ok")
    THEN TraditionalRuns(t, easy, tess) ELSE << >>

\* what AdvancedVisionOCR.process can return
VisionResults ==
    { VisionOCRResult("Math: do page 5",
                      [ HomeworkExtraction EXCEPT !.description = "Math: do page 5" ],
                      ConfStructured, "ensemble"),
      VisionOCRResult("", HomeworkExtraction, ConfGeminiFallback, "gemini") }

VisionFailures ==
    { Exception("RuntimeError", "All engines failed"),
      Exception("HTTPError", "together: request failed") }

\* ------------------------------------------------------------- Init
\* AdvancedOCREngine.__init__, lines 731-787, and _init_legacy_vision, 789-820:
\* every constructor that raises leaves its attribute None
SelectorInit ==
    /\ \E together_api_key, gemini_api_key, deepseek_api_key \in BOOLEAN,
          HAS_HTTPX, HAS_GENAI, HAS_ADVANCED_VISION \in BOOLEAN,
          use_easyocr, use_tesseract, easyocr_loads, tesseract_found \in BOOLEAN,
          enable_ensemble \in BOOLEAN, mode \in Modes :
          /\ preferred_mode = mode
          /\ traditional =
                IF use_easyocr \/ use_tesseract
                THEN Some([ easyocr_reader |-> use_easyocr /\ easyocr_loads,
                            tesseract_available |-> use_tesseract /\ tesseract_found,
                            preferred_engine |-> IF use_easyocr THEN "easyocr"
                                                 ELSE "tesseract" ])
                ELSE None
          /\ vision_ocr =
                IF /\ HAS_ADVANCED_VISION
                   /\ together_api_key \/ gemini_api_key
                   /\ together_api_key => HAS_HTTPX
                   /\ gemini_api_key => HAS_GENAI
                THEN Some([ engines |-> (IF together_api_key THEN << "together" >> ELSE << >>)
                                        \o (IF gemini_api_key THEN << "gemini" >> ELSE << >>),
                            preferred_mode |-> IF enable_ensemble THEN "ensemble"
                                               ELSE "together" ])
                ELSE None
          /\ legacy = { n \in {"together", "gemini", "deepseek"} :
                          \/ n = "together" /\ together_api_key /\ HAS_HTTPX
                          \/ n = "gemini" /\ gemini_api_key /\ HAS_GENAI
                          \/ n = "deepseek" /\ deepseek_api_key /\ HAS_HTTPX }
    /\ sphase = "idle"
    /\ spath = "none"
    /\ squeue = << >>
    /\ sattempts = << >>
    /\ trace = << >>
    /\ sresult = None

selConfig == << preferred_mode, vision_ocr, legacy, traditional >>

\* ------------------------------------------------------------- actions
\* process_image, lines 822-846, up to the first await of the primary path, or
\* of the first fallback attempt when the primary path raises before any await
ProcessImage ==
    /\ sphase = "idle"
    /\ LET mode == SelectMode
       IN Apply(IF mode = "advanced_vision" /\ vision_ocr # None
                THEN Enter("primary", "advanced_vision", << >>)
                ELSE IF mode = "legacy_vision"
                THEN (IF LegacyEngines = << >>
                      THEN FallbackFrom(FallbackAttempts)
                      ELSE Enter("primary", "legacy_vision", << >>))
                ELSE IF traditional # None
                THEN Enter("primary", "traditional", << >>)
                ELSE FallbackFrom(FallbackAttempts))
    /\ UNCHANGED << selConfig, trace, notSel >>

\* _process_advanced_vision, lines 871-880: vision_ocr.process returned
AdvancedVisionReturns(r) ==
    /\ sphase \in {"primary", "fallback"}
    /\ spath = "advanced_vision"
    /\ LET out == OCResult(r.text, r.confidence)
       IN /\ trace' = Append(trace, Call(spath, "advanced_vision", out, << >>))
          /\ Apply(Returned(out))
    /\ UNCHANGED << selConfig, notSel >>

\* line 871: vision_ocr.process raised
AdvancedVisionRaises(e) ==
    /\ sphase \in {"primary", "fallback"}
    /\ spath = "advanced_vision"
    /\ trace' = Append(trace, Call(spath, "advanced_vision", e, << >>))
    /\ Apply(PathFailed)
    /\ UNCHANGED << selConfig, notSel >>

\* _process_legacy_vision, line 903: the engine at the head of the loop returned
LegacyReturns(text) ==
    /\ sphase \in {"primary", "fallback"}
    /\ spath = "legacy_vision"
    /\ LET out == LegacyResult(Head(squeue), text)
       IN /\ trace' = Append(trace, Call(spath, Head(squeue), out, << >>))
          /\ Apply(Returned(out))
    /\ UNCHANGED << selConfig, notSel >>

\* lines 904-908: the engine at the head of the loop raised
LegacyRaises ==
    /\ sphase \in {"primary", "fallback"}
    /\ spath = "legacy_vision"
    /\ trace' = Append(trace, Call(spath, Head(squeue),
                                   Exception("HTTPError", Head(squeue) \o ": request failed"),
                                   << >>))
    /\ IF Tail(squeue) = << >>
       THEN Apply(PathFailed)
       ELSE squeue' = Tail(squeue) /\ UNCHANGED << sphase, spath, sattempts, sresult >>
    /\ UNCHANGED << selConfig, notSel >>

\* lines 840 / 925: traditional.process_image, which has no await of its own
Traditional(load, reload, easy, tess) ==
    /\ sphase \in {"primary", "fallback"}
    /\ spath = "traditional"
    /\ LET out == TraditionalProcessImage(traditional[1], load, reload, easy, tess)
       IN /\ trace' = Append(trace,
                 Call(spath, "traditional", out,
                      TraditionalDetail(traditional[1], load, reload, easy, tess)))
          /\ Apply(IF out.kind = "result" THEN Returned(out) ELSE PathFailed)
    /\ UNCHANGED << selConfig, notSel >>

SelectorNext ==
    \/ ProcessImage
    \/ \E r \in VisionResults : AdvancedVisionReturns(r)
    \/ \E e \in VisionFailures : AdvancedVisionRaises(e)
    \/ \E text \in Texts : LegacyReturns(text)
    \/ LegacyRaises
    \/ \E load, reload \in {"ok", "raises"}, easy, tess \in EngineRuns :
          Traditional(load, reload, easy, tess)

SelectorStart == BatchIdle /\ EnsIdle /\ SelectorInit /\ RedIdle /\ AdapterIdle /\ MergeIdle /\ ValidatorIdle

SelectorSpec == SelectorStart /\ [][SelectorNext]_vars

\* ------------------------------------------------------------- C9
InFallback(c) == c.phase = "fallback"

FallbackCalls == SelectSeq(trace, InFallback)

\* the place of a call in the order advanced ensemble, legacy together, gemini,
\* deepseek, traditional
Rank(path, engine) ==
    CASE path = "advanced_vision" -> 1
      [] path = "legacy_vision" /\ engine = "together" -> 2
      [] path = "legacy_vision" /\ engine = "gemini" -> 3
      [] path = "legacy_vision" /\ engine = "deepseek" -> 4
      [] OTHER -> 5

AvailableRanks ==
    (IF vision_ocr # None THEN {1} ELSE {})
    \cup { Rank("legacy_vision", n) : n \in legacy }
    \cup (IF traditional # None THEN {5} ELSE {})

CallFailed(c) == c.outcome.kind = "exception"

\* C9: once the primary path has failed, the paths are called in the order
\* advanced ensemble, legacy together, gemini, deepseek, traditional, none that
\* is available being skipped; every call but the last one made has failed, and
\* a returned result is the outcome of the last call made, so that nothing is
\* called after a success.
C9_FallbackOrder ==
    LET fb == FallbackCalls
    IN /\ \A k \in DOMAIN fb :
             /\ k < Len(fb) => Rank(fb[k].path, fb[k].engine) < Rank(fb[k + 1].path, fb[k + 1].engine)
             /\ Rank(fb[k].path, fb[k].engine) \in AvailableRanks
             /\ { r \in AvailableRanks : r < Rank(fb[k].path, fb[k].engine) }
                   \subseteq { Rank(fb[j].path, fb[j].engine) : j \in 1..(k - 1) }
       /\ \A k \in DOMAIN trace : k < Len(trace) => CallFailed(trace[k])
       /\ sphase = "fallback" =>
             { r \in AvailableRanks : r < Rank(spath, IF squeue = << >> THEN "" ELSE Head(squeue)) }
                \subseteq { Rank(fb[j].path, fb[j].engine) : j \in DOMAIN fb }
       /\ sphase = "returned" =>
             /\ trace # << >>
             /\ ~CallFailed(trace[Len(trace)])
             /\ sresult = Some(trace[Len(trace)].outcome)
       /\ sphase = "raised" =>
             /\ \A k \in DOMAIN trace : CallFailed(trace[k])
             /\ AvailableRanks = { Rank(fb[j].path, fb[j].engine) : j \in DOMAIN fb }

\* the primary path failed, the fallback went through the advanced ensemble and
\* the legacy together engine, the legacy gemini engine returned, and neither
\* deepseek nor the traditional path, both available, was called
C9_Witness ==
    /\ sphase = "returned"
    /\ Len(trace) = 4
    /\ trace[1].phase = "primary"
    /\ Len(FallbackCalls) = 3
    /\ FallbackCalls[1].path = "advanced_vision"
    /\ FallbackCalls[2].engine = "together"
    /\ FallbackCalls[3].engine = "gemini"
    /\ "deepseek" \in legacy
    /\ traditional # None
    /\ sresult = Some(LegacyResult("gemini", "Math: do page 5"))

\* ------------------------------------------------------------- C10
\* an engine produced a result in the call
EngineSucceeded(c) ==
    IF c.path = "traditional"
    THEN \E k \in DOMAIN c.detail : c.detail[k].outcome.kind = "result"
    ELSE c.outcome.kind = "result"

\* the engines that failed in the call, each with its message
FailuresOf(c) ==
    (IF c.outcome.kind = "exception" THEN { << c.engine, c.outcome.msg >> } ELSE {})
    \cup { << c.detail[k].engine, c.detail[k].outcome.msg >> :
              k \in { j \in DOMAIN c.detail : c.detail[j].outcome.kind = "exception" } }

TriedFailures == UNION { FailuresOf(trace[k]) : k \in DOMAIN trace }

\* the per-engine failures an exception carries
Failures(e) == IF "failures" \in DOMAIN e THEN e.failures ELSE {}

\* C10: when process_image is over, engines were tried and none succeeded, it
\* has raised an AllEnginesFailed error that carries the name and the message
\* of every engine that failed, and it has returned no result.
C10_AllEnginesFailedCarriesReasons ==
    (/\ sphase \in {"returned", "raised"}
     /\ trace # << >>
     /\ \A k \in DOMAIN trace : ~EngineSucceeded(trace[k]))
       => /\ sphase = "raised"
          /\ sresult[1].type = "AllEnginesFailed"
          /\ Failures(sresult[1]) = TriedFailures

\* ------------------------------------------------------------- C11
\* C11: a call of process_image that returns, returns the result of an engine
\* that actually succeeded in the last call made; it never returns the empty
\* text that stands for no engine having produced anything.
C11_ResultFromSucceededEngine ==
    sphase = "returned" =>
        /\ trace # << >>
        /\ EngineSucceeded(trace[Len(trace)])
        /\ sresult[1].text # "" \/ trace[Len(trace)].path # "traditional"

\* ------------------------------------------------------------- C12
\* AdvancedVisionOCR.process, line 589: whether the ensemble gathers its engines
UseEnsemble(v) == v.preferred_mode = "ensemble" /\ Len(v.engines) > 1

\* what a path of process_image runs: the voting ensemble, one vision engine at
\* a time, or the traditional engines
PathKind(path) ==
    CASE path = "advanced_vision" ->
            IF UseEnsemble(vision_ocr[1]) THEN "ensemble" ELSE "single_vision"
      [] path = "legacy_vision" -> "single_vision"
      [] OTHER -> "traditional"

\* the ensemble was built with at least 2 engines and enable_ensemble was left on
EnsembleAvailable ==
    /\ vision_ocr # None
    /\ Len(vision_ocr[1].engines) >= 2
    /\ vision_ocr[1].preferred_mode = "ensemble"

VisionAvailable == vision_ocr # None \/ legacy # {}

\* the path process_image awaits first, if it awaits one
PrimaryPaths ==
    (IF sphase = "primary" THEN { spath } ELSE {})
    \cup { trace[k].path : k \in { j \in DOMAIN trace : trace[j].phase = "primary" } }

\* C12 (amended): in mode auto the primary path is the voting ensemble when the
\* ensemble was built with at least 2 engines and is enabled, else a single
\* vision engine when one was built, else the traditional engines; a primary
\* path is entered whenever one of the three is available.
C12_AutoPriorityByAvailability ==
    preferred_mode = "auto" =>
        /\ \A pa \in PrimaryPaths :
              PathKind(pa) = IF EnsembleAvailable THEN "ensemble"
                             ELSE IF VisionAvailable THEN "single_vision"
                             ELSE "traditional"
        /\ (sphase # "idle" /\ (VisionAvailable \/ traditional # None)) =>
              PrimaryPaths # {}
        /\ \A pa \in PrimaryPaths :
              /\ pa = "advanced_vision" => vision_ocr # None
              /\ pa = "legacy_vision" => legacy # {}
              /\ pa = "traditional" => traditional # None

\* mode auto with the ensemble, a legacy engine and the traditional engines all
\* available: the primary path was the ensemble and it returned
C12_Witness ==
    /\ preferred_mode = "auto"
    /\ EnsembleAvailable
    /\ legacy # {}
    /\ traditional # None
    /\ sphase = "returned"
    /\ Len(trace) = 1
    /\ trace[1].phase = "primary"
    /\ trace[1].path = "advanced_vision"

\* the vision adapters for which an engine was built
ConfiguredVisionAdapters ==
    legacy \cup (IF vision_ocr # None THEN Range(vision_ocr[1].engines) ELSE {})

\* C12 as stated: in mode auto the primary path is the ensemble as soon as at
\* least 2 vision adapters are configured.
C12_AutoEnsembleWhenTwoConfigured ==
    (preferred_mode = "auto" /\ Cardinality(ConfiguredVisionAdapters) >= 2) =>
        \A pa \in PrimaryPaths : PathKind(pa) = "ensemble"

\* ------------------------------------------------------------- C13
\* the paths process_image has called so far, the one it awaits included
PathsInvoked ==
    (IF sphase \in {"primary", "fallback"} THEN { spath } ELSE {})
    \cup { trace[k].path : k \in DOMAIN trace }

\* C13: in mode traditional no vision path, advanced or legacy, is ever called
\* by process_image.
C13_TraditionalModeCallsNoVision ==
    preferred_mode = "traditional" => PathsInvoked \subseteq { "traditional" }

\* ------------------------------------------------------------- C14
\* the engine built holds no vision engine and no usable traditional engine
NoEngine ==
    /\ vision_ocr = None
    /\ legacy = {}
    /\ \/ traditional = None
       \/ ~traditional[1].easyocr_reader /\ ~traditional[1].tesseract_available

\* C14: without any engine the construction fails, so that no call of
\* process_image is ever made, and none ends, on an engine-less pipeline.
C14_NoEngineNeverReachesACall ==
    NoEngine => sphase \notin {"primary", "fallback", "returned", "raised"}

\* ------------------------------------------------------- PIIReductor
\* A text is a sequence of lexemes: a run of five digits, a URL, an alphabetic
\* word, a blank.  The placeholders and the tail a URL match leaves of a second
\* URL glued to the first appear in redacted texts only.
Digits == "12345"
Url == "http://a.b/"
Word == "Ali"
Blank == " "
UrlTail == "://a.b/"

Lexemes == { Digits, Url, Word, Blank }

\* first / last character of the lexeme is a word character (\w)
StartsWithWordChar(t) == t \in { Digits, Url, Word }

EndsWithWordChar(t) == t \in { Digits, Word }

\* \b holds before lexeme i, which starts with a word character
BoundaryBefore(x, i) == i = 1 \/ ~EndsWithWordChar(x[i - 1])

\* \b holds after lexeme j, which ends with a word character
BoundaryAfter(x, j) == j = Len(x) \/ ~StartsWithWordChar(x[j + 1])

\* the text as the string it stands for
RECURSIVE Render(_)
Render(x) == IF x = << >> THEN "" ELSE Head(x) \o Render(Tail(x))

\* last index of the run of lexemes from toks that starts at i
RECURSIVE RunEnd(_, _, _)
RunEnd(x, i, toks) ==
    IF i + 1 <= Len(x) /\ x[i + 1] \in toks THEN RunEnd(x, i + 1, toks) ELSE i

\* 'postal_code', line 33: \b\d{5}\b
PostalSub(x) ==
    [ i \in DOMAIN x |->
        IF x[i] = Digits /\ BoundaryBefore(x, i) /\ BoundaryAfter(x, i)
        THEN "[POSTCODE]" ELSE x[i] ]

\* 'url', lines 49-52: the host and path classes run over the words and digits
\* glued to the URL, and over the scheme letters of a URL glued after them
RECURSIVE UrlSubFrom(_, _)
UrlSubFrom(x, i) ==
    IF i > Len(x) THEN << >>
    ELSE IF x[i] = Url
    THEN LET j == RunEnd(x, i, { Word, Digits })
         IN << "[URL]" >>
            \o (IF j + 1 <= Len(x) /\ x[j + 1] = Url
                THEN << UrlTail >> \o UrlSubFrom(x, j + 2)
                ELSE UrlSubFrom(x, j + 1))
    ELSE << x[i] >> \o UrlSubFrom(x, i + 1)

UrlSub(x) == UrlSubFrom(x, 1)

MaxNameWords == 4

\* 'name', lines 37-40, under re.IGNORECASE: the match whose words so far end
\* at e takes (\s+ word) again while a whole word follows
RECURSIVE NameExtend(_, _, _)
NameExtend(x, e, words) ==
    IF words < MaxNameWords /\ e + 1 <= Len(x) /\ x[e + 1] = Blank
    THEN LET s == RunEnd(x, e + 1, { Blank })
         IN IF s + 1 <= Len(x) /\ x[s + 1] = Word
               /\ BoundaryAfter(x, RunEnd(x, s + 1, { Word }))
            THEN NameExtend(x, RunEnd(x, s + 1, { Word }), words + 1)
            ELSE e
    ELSE e

\* last index of the name matched from lexeme i on, 0 when none is
NameEnd(x, i) ==
    IF x[i] # Word \/ ~BoundaryBefore(x, i) THEN 0
    ELSE LET first == RunEnd(x, i, { Word })
             e == NameExtend(x, first, 1)
         IN IF e > first THEN e ELSE 0

RECURSIVE NameSubFrom(_, _)
NameSubFrom(x, i) ==
    IF i > Len(x) THEN << >>
    ELSE IF NameEnd(x, i) > 0
    THEN << "[NAME]" >> \o NameSubFrom(x, NameEnd(x, i) + 1)
    ELSE << x[i] >> \o NameSubFrom(x, i + 1)

NameSub(x) == NameSubFrom(x, 1)

\* pattern.sub(replacement, text) of compiled_patterns[key], lines 13-53; no
\* text over Lexemes holds twelve digits, a phone prefix, an @, a street or a
\* school keyword, so the other patterns match nowhere
Sub(key, x) ==
    CASE key = "postal_code" -> PostalSub(x)
      [] key = "url" -> UrlSub(x)
      [] key = "name" -> NameSub(x)
      [] OTHER -> x

\* line 90
high_confidence == << "my_ic", "phone", "email", "address", "postal_code", "url" >>

\* lines 92-98 and 102-108: the patterns of keys applied one after the other
RECURSIVE SubAll(_, _)
SubAll(keys, x) ==
    IF keys = << >> THEN x ELSE SubAll(Tail(keys), Sub(Head(keys), x))

\* PIIReductor.redact, lines 72-119: the redacted text (element 0 of the pair)
Redact(text, aggressive) ==
    IF text = << >> THEN text
    ELSE LET high == SubAll(high_confidence, text)
         IN IF aggressive THEN SubAll(<< "name", "school_name" >>, high) ELSE high

\* the keys of redacted_count, lines 92-108: the patterns that matched, in the
\* order they were applied
RECURSIVE Counted(_, _)
Counted(keys, x) ==
    IF keys = << >> THEN << >>
    ELSE (IF Sub(Head(keys), x) # x THEN << Head(keys) >> ELSE << >>)
         \o Counted(Tail(keys), Sub(Head(keys), x))

\* PIIReductor.redact, lines 72-119: the report (element 1 of the pair), which
\* is the empty dict for an empty text
RedactReport(text, aggressive) ==
    IF text = << >> THEN << >>
    ELSE [ redacted_count |->
               Counted(high_confidence
                       \o (IF aggressive THEN << "name", "school_name" >> ELSE << >>), text),
           aggressive_mode |-> aggressive ]

\* redact_for_ai, lines 157-168: report['redacted_count'] at line 162 raises
\* KeyError on a report without that key
RedactForAi(text) ==
    IF "redacted_count" \notin DOMAIN RedactReport(text, TRUE)
    THEN Exception("KeyError", "redacted_count")
    ELSE [ kind |-> "result", text |-> Redact(text, TRUE) ]

\* ------------------------------------------------------------- Init
MaxLen == 3
MaxPasses == 2

\* the texts of at most n lexemes
TextsUpTo(n) == UNION { [ 1..k -> Lexemes ] : k \in 0..n }

RedactorInit ==
    /\ rtext \in TextsUpTo(MaxLen)
    /\ rpasses = << >>

\* ------------------------------------------------------------- actions
\* a call of redact: the first one on the text, each later one on the text the
\* call before it returned
RedactPass(aggressive) ==
    /\ Len(rpasses) < MaxPasses
    /\ LET input == IF rpasses = << >> THEN rtext ELSE rpasses[Len(rpasses)].text
       IN rpasses' = Append(rpasses, [ aggressive |-> aggressive,
                                       input |-> input,
                                       text |-> Redact(input, aggressive) ])
    /\ UNCHANGED << rtext, notRed >>

RedactorNext == \E aggressive \in BOOLEAN : RedactPass(aggressive)

RedactorStart == BatchIdle /\ EnsIdle /\ SelIdle /\ RedactorInit /\ AdapterIdle /\ MergeIdle /\ ValidatorIdle

RedactorSpec == RedactorStart /\ [][RedactorNext]_vars

\* ------------------------------------------------------------- C18
\* C18: aggressive redaction is idempotent: redacting the text a first
\* aggressive redaction returned returns the same text.
C18_RedactIdempotent ==
    (Len(rpasses) = 2 /\ rpasses[1].aggressive /\ rpasses[2].aggressive) =>
        Render(rpasses[2].text) = Render(rpasses[1].text)

\* ------------------------------------------------- text-path adapters
\* OpenAIProcessor.extract_homework, GeminiProcessor.extract_homework (bot),
\* PipelineAIProcessor.extract_homework, DeepSeekOCR.enhance_text, and, for the
\* retry policy, TogetherAIVision.extract_structured, which sends the image
Adapters == { "openai", "gemini", "pipeline", "deepseek_enhance", "together_vision" }

\* the methods under @retry(stop=stop_after_attempt(3), wait=wait_exponential(...))
Decorated == { "openai", "gemini", "pipeline" }

\* the methods that put OCR text into their request
TextPath == { "openai", "gemini", "pipeline", "deepseek_enhance" }

StopAfterAttempt == 3
FallbackCharsBot == 500
FallbackCharsPipeline == 1000
ConfAiFallback == 50
ConfAiDefault == 80

\* the OCR-derived text the adapter embeds in its request: bot/ai_processor.py
\* lines 108-112 and 361-363, pipeline/ai_processor.py line 72, ocr_engine.py
\* lines 242-246
Embedded(a, text) ==
    IF a \in { "openai", "gemini" } THEN RedactForAi(text).text ELSE text

\* the method raises before it builds its request: redact_for_ai is called
\* outside the try block, bot/ai_processor.py lines 108 and 361
RaisesBeforeRequest(a, text) ==
    a \in { "openai", "gemini" } /\ RedactForAi(text).kind = "exception"

Request(a, text) ==
    [ adapter |-> a,
      text |-> IF a \in TextPath THEN Some(Embedded(a, text)) ELSE None ]

\* ocr_text[:limit], cut at a lexeme
RECURSIVE Prefix(_, _)
Prefix(text, limit) ==
    IF text = << >> \/ Len(Head(text)) > limit THEN << >>
    ELSE << Head(text) >> \o Prefix(Tail(text), limit - Len(Head(text)))

AiResult(description, confidence) ==
    [ kind |-> "result", description |-> description, confidence |-> confidence ]

\* _fallback_result: bot/ai_processor.py lines 273-294, pipeline lines 106-120
FallbackResult(a, text) ==
    AiResult(Prefix(text, IF a = "pipeline" THEN FallbackCharsPipeline ELSE FallbackCharsBot),
             ConfAiFallback)

\* what the provider does on one attempt
ProviderOutcomes == { "json", "malformed", "failed" }

\* the body of the method on one attempt: what it returns or raises
Body(a, text, outcome) ==
    CASE a \in Decorated ->
            IF outcome = "json" THEN AiResult(<< Word >>, ConfAiDefault)
            ELSE FallbackResult(a, text)
      [] a = "deepseek_enhance" ->
            IF outcome = "failed" THEN AiResult(text, 0)
            ELSE AiResult(<< Word >>, 0)
      [] OTHER ->
            IF outcome = "json" THEN AiResult(<< Word >>, ConfStructured)
            ELSE IF outcome = "malformed"
            THEN Exception("JSONDecodeError", "together: body is not JSON")
            ELSE Exception("HTTPError", "together: request failed")

\* tenacity around a decorated method: an attempt that raised is made again
\* until stop_after_attempt, then RetryError is raised
MustRetry(a, out, n) == a \in Decorated /\ out.kind = "exception" /\ n < StopAfterAttempt

Surfaced(a, out, n) ==
    IF a \in Decorated /\ out.kind = "exception"
    THEN Exception("RetryError", out.msg) ELSE out

\* ------------------------------------------------------------- Init
AdapterInit ==
    /\ adapter \in Adapters
    /\ ocr_text \in TextsUpTo(MaxLen)
    /\ tphase = "idle"
    /\ attempt = 0
    /\ outcomes = << >>
    /\ sent = << >>
    /\ tresult = None

\* ------------------------------------------------------------- actions
\* the method is called: the first attempt builds and transmits its request,
\* unless it raises before
AdapterCall ==
    /\ tphase = "idle"
    /\ attempt' = 1
    /\ IF RaisesBeforeRequest(adapter, ocr_text)
       THEN tphase' = "failing" /\ UNCHANGED sent
       ELSE tphase' = "awaiting" /\ sent' = Append(sent, Request(adapter, ocr_text))
    /\ UNCHANGED << adapter, ocr_text, outcomes, tresult, notAd >>

\* the attempt under way raises before any request: tenacity makes the next
\* attempt, which fails the same way, or gives up
AttemptRaises ==
    /\ tphase = "failing"
    /\ outcomes' = Append(outcomes, "not_sent")
    /\ LET out == RedactForAi(ocr_text)
       IN IF MustRetry(adapter, out, attempt)
          THEN /\ attempt' = attempt + 1
               /\ UNCHANGED << tphase, tresult >>
          ELSE /\ tresult' = Some(Surfaced(adapter, out, attempt))
               /\ tphase' = "raised"
               /\ UNCHANGED attempt
    /\ UNCHANGED << adapter, ocr_text, sent, notAd >>

\* the attempt under way is over: the provider answered, or the request failed
AttemptOver(outcome) ==
    /\ tphase = "awaiting"
    /\ outcomes' = Append(outcomes, outcome)
    /\ LET out == Body(adapter, ocr_text, outcome)
       IN IF MustRetry(adapter, out, attempt)
          THEN /\ attempt' = attempt + 1
               /\ sent' = Append(sent, Request(adapter, ocr_text))
               /\ UNCHANGED << tphase, tresult >>
          ELSE /\ tresult' = Some(Surfaced(adapter, out, attempt))
               /\ tphase' = IF Surfaced(adapter, out, attempt).kind = "exception"
                            THEN "raised" ELSE "returned"
               /\ UNCHANGED << attempt, sent >>
    /\ UNCHANGED << adapter, ocr_text, notAd >>

AdapterNext ==
    \/ AdapterCall
    \/ AttemptRaises
    \/ \E outcome \in ProviderOutcomes : AttemptOver(outcome)

AdapterStart == BatchIdle /\ EnsIdle /\ SelIdle /\ RedIdle /\ AdapterInit /\ MergeIdle /\ ValidatorIdle

AdapterSpec == AdapterStart /\ [][AdapterNext]_vars

\* ------------------------------------------------------------- C15
\* C15: a call to an external provider that ends on a failed attempt has made
\* StopAfterAttempt attempts and raises; it never ends on a failed attempt
\* before the third.
C15_FailureSurfacesAfterThirdAttempt ==
    (tphase \in {"returned", "raised"} /\ outcomes[Len(outcomes)] = "failed") =>
        /\ Len(outcomes) = StopAfterAttempt
        /\ tphase = "raised"

\* ------------------------------------------------------------- C17
\* C17: every request of a text-path adapter carries the OCR text as the
\* aggressive redaction returned it, never the OCR text itself.
C17_OnlyRedactedTextSent ==
    \A k \in DOMAIN sent :
        sent[k].text # None => Render(sent[k].text[1]) = Render(Redact(ocr_text, TRUE))

\* ------------------------------------------------------------- C16
\* the bodies that are neither JSON nor JSON in a markdown fence
FreeText == { c \in Contents : c.kind = "text" }

\* the result the adapters are to give on such a body
Degraded(r, c) ==
    /\ r.kind = "result"
    /\ r.extraction.description = ContentText(c)
    /\ r.extraction.confidence < ConfStructured

\* C16: when an adapter's request is answered with a body that is not JSON,
\* its extract_structured returns a result of lower confidence whose
\* description is the body, and does not raise.
C16_FreeTextGivesDegradedResult ==
    [][\A name \in EngineNames, c \in FreeText :
          EngineCompletes(name, c) => Degraded(ereply'[name][1], c)]_vars

\* ------------------------------------------------- _ensemble_merge alone
\* the longest list of results given to the merge
MaxResults == 3

\* extractions the engines may give for one image
Extractions ==
    { [ HomeworkExtraction EXCEPT !.subject = e[1], !.title = e[2], !.due_date = e[3],
                                  !.estimated_time = e[4], !.priority = e[5],
                                  !.confidence = e[6], !.assignments = e[7] ] :
        e \in { << "Mathematics", "Algebra Homework", Some("2024-12-25"), None, "normal", ConfStructured,
                   << [ task |-> "ex1" ] >> >>,
                << "Mathematics", "Algebra Homework", Some("2024-12-26"), Some("30 min"), "urgent", ConfStructured,
                   << [ task |-> "ex1", page_numbers |-> "12" ], [ task |-> "ex2" ] >> >>,
                << "Science", "Algebra Homework", Some("2024-12-26"), Some("1 hour"), "high", ConfStructured, << >> >>,
                << "Science", "Plants", None, Some("30 min"), "low", ConfStructured,
                   << [ page_numbers |-> "12" ] >> >>,
                << "", "", Some(""), Some(""), "medium", ConfStructured,
                   << [ task |-> "" ] >> >>,
                << "", "", None, None, "normal", ConfGeminiFallback, << >> >>,
                << "", "Plants", Some("2024-12-25"), Some("1 hour"), "low", ConfStructured,
                   << [ task |-> "ex2" ], [ task |-> "ex1" ] >> >> } }

\* the name of the k-th engine of a call
EngineLabel(k) ==
    IF k = 1 THEN "together" ELSE IF k = 2 THEN "gemini" ELSE "engine" \o ToString(k)

\* the lists of results of up to n engines, in the order the engines were run
ResultLists(n) ==
    UNION { { [ k \in 1..m |-> [ name |-> EngineLabel(k), raw_text |-> "text",
                                 extraction |-> es[k] ] ] : es \in [ 1..m -> Extractions ] }
            : m \in 0..n }

MergeInit ==
    /\ mresults \in ResultLists(MaxResults)
    /\ mresult = None

\* _ensemble_merge(results)
Merge ==
    /\ mresult = None
    /\ mresult' = Some(EnsembleMerge(mresults))
    /\ UNCHANGED << mresults, notMg >>

MergeNext == Merge

MergeStart == BatchIdle /\ EnsIdle /\ SelIdle /\ RedIdle /\ AdapterIdle /\ MergeInit /\ ValidatorIdle

MergeSpec == MergeStart /\ [][MergeNext]_vars

\* ------------------------------------------------------------- C19
\* the merge of more than one result is over
Merged == mresult # None /\ Len(mresults) > 1

\* the fields that are a str, and those that are an Optional[str]
StringFields == { "subject", "title" }
OptionalFields == { "due_date", "estimated_time" }

\* the values of a field among the results that are not empty, in input order
Reported(field) ==
    LET all == [ k \in DOMAIN mresults |-> mresults[k].extraction[field] ]
    IN IF field \in StringFields THEN SelectSeq(all, NonEmpty) ELSE TruthyValues(all)

FirstIndex(values, v) ==
    CHOOSE k \in DOMAIN values : values[k] = v /\ \A j \in 1..(k - 1) : values[j] # v

\* w is the most frequent of the values and, among the most frequent, the one
\* seen first
Plurality(values, w) ==
    /\ w \in Range(values)
    /\ \A v \in Range(values) :
          /\ Occurrences(values, v) <= Occurrences(values, w)
          /\ Occurrences(values, v) = Occurrences(values, w) =>
                FirstIndex(values, w) <= FirstIndex(values, v)

\* the value of a field of the merged record, as a string
MergedField(field) ==
    LET v == mresult[1].structured[field]
    IN IF field \in StringFields THEN v ELSE v[1]

\* C19: in a merge of more than one result, subject, title, due_date and
\* estimated_time are each the most frequent non-empty value of the results,
\* the first seen among tied values, and engines_used lists the names of the
\* merged engines in input order.
C19_PluralityFirstSeen ==
    Merged =>
        /\ \A field \in StringFields \cup OptionalFields :
              Reported(field) # << >> => Plurality(Reported(field), MergedField(field))
        /\ mresult[1].structured.extraction_metadata[1].engines_used
              = [ k \in DOMAIN mresults |-> mresults[k].name ]

\* two engines agree on subject and title and disagree on due_date
C19_Witness ==
    /\ Merged
    /\ Len(mresults) = 2
    /\ mresults[1].extraction.subject = "Mathematics"
    /\ mresults[2].extraction.subject = "Mathematics"
    /\ mresults[1].extraction.due_date = Some("2024-12-25")
    /\ mresults[2].extraction.due_date = Some("2024-12-26")
    /\ mresult[1].structured.due_date = Some("2024-12-25")
    /\ mresult[1].structured.extraction_metadata[1].engines_used = << "together", "gemini" >>

\* ------------------------------------------------------------- C20
\* the four priorities, the most urgent first
Urgencies == << "urgent", "high", "normal", "low" >>

Urgency(p) == CHOOSE k \in DOMAIN Urgencies : Urgencies[k] = p

\* the priorities of the four that the results report
ReportedPriorities ==
    { mresults[k].extraction.priority : k \in DOMAIN mresults } \cap Range(Urgencies)

\* the results in another order
Reordered(f) == [ k \in DOMAIN mresults |-> mresults[f[k]] ]

\* C20: the merged priority is the most urgent priority a result reports,
\* 'normal' when no result reports one of the four, and the same for the
\* results in every order.
C20_MostUrgentPriority ==
    Merged =>
        /\ IF ReportedPriorities = {} THEN mresult[1].structured.priority = "normal"
           ELSE /\ mresult[1].structured.priority \in ReportedPriorities
                /\ \A p \in ReportedPriorities :
                      Urgency(mresult[1].structured.priority) <= Urgency(p)
        /\ \A f \in Permutations(DOMAIN mresults) :
              EnsembleMerge(Reordered(f)).structured.priority = mresult[1].structured.priority

\* results reporting normal, urgent, high, in this order, merge to urgent
C20_Witness ==
    /\ Merged
    /\ [ k \in DOMAIN mresults |-> mresults[k].extraction.priority ]
          = << "normal", "urgent", "high" >>
    /\ mresult[1].structured.priority = "urgent"

\* ------------------------------------------------------------- C21
\* two results that report the same values
Agreeing ==
    /\ Len(mresults) = 2
    /\ \A field \in StringFields \cup OptionalFields \cup { "priority" } :
          mresults[1].extraction[field] = mresults[2].extraction[field]

\* C21: the merge of N > 1 results has confidence min(0.95, 0.8 + 0.1 * N), in
\* hundredths, and the merge of two agreeing results has at least the
\* confidence of each of the two.
C21_MergedConfidence ==
    Merged =>
        /\ mresult[1].confidence
              = (IF 80 + 10 * Len(mresults) < 95 THEN 80 + 10 * Len(mresults) ELSE 95)
        /\ mresult[1].structured.confidence = mresult[1].confidence
        /\ Agreeing => \A k \in DOMAIN mresults :
                          mresult[1].confidence >= mresults[k].extraction.confidence

\* two agreeing results of confidence 0.9 merge to confidence 0.95
C21_Witness ==
    /\ Merged
    /\ Agreeing
    /\ mresults[1].extraction.subject = "Mathematics"
    /\ mresults[1].extraction.confidence = ConfStructured
    /\ mresult[1].confidence = ConfMergeCap

\* ------------------------------------------------------------- C22
\* the assignments of all results, in engine order and then in the order
\* within the engine
Reports == Flatten([ k \in DOMAIN mresults |-> mresults[k].extraction.assignments ])

TaskOf(a) == Get(a, "task", "")

\* the first of the reported assignments with this task
FirstWithTask(t) ==
    CHOOSE k \in DOMAIN Reports :
        TaskOf(Reports[k]) = t /\ \A j \in 1..(k - 1) : TaskOf(Reports[j]) # t

\* C22: every reported assignment is represented in the merged list by an
\* assignment of the same task, no two merged assignments have the same task,
\* and the merged list is in first-seen order.
C22_AssignmentsUnion ==
    Merged =>
        LET merged == mresult[1].structured.assignments
        IN /\ \A k \in DOMAIN Reports :
                 \E j \in DOMAIN merged : TaskOf(merged[j]) = TaskOf(Reports[k])
           /\ \A j \in DOMAIN merged : merged[j] = Reports[FirstWithTask(TaskOf(merged[j]))]
           /\ \A i, j \in DOMAIN merged :
                 i < j => FirstWithTask(TaskOf(merged[i])) < FirstWithTask(TaskOf(merged[j]))

\* ------------------------------------------------------------- C23
\* the four priorities of a HomeworkExtraction
Priorities == { "low", "normal", "high", "urgent" }

\* C23: the extraction a call of extract returns, from one engine, from the
\* merge or from the fallback on a body that is not JSON, has a confidence in
\* [0, 1] (in hundredths) and a priority that is one of the four.
C23_ExtractionWellFormed ==
    (ephase = "returned" /\ eresult # None) =>
        /\ eresult[1].structured.confidence \in 0..100
        /\ eresult[1].structured.priority \in Priorities

\* ======================================================= DataValidator
MinConfidence == 60
ReviewConfidence == 70
TitleMinLen == 3
TitleMaxLen == 200
YearDays == 365

\* the members of VALID_SUBJECTS the extractions use
VALID_SUBJECTS == { "mathematics", "math", "english", "science" }

RECURSIVE Repeat(_, _)
Repeat(str, n) == IF n = 0 THEN "" ELSE str \o Repeat(str, n - 1)

\* a datetime: the day, counted from 2024-12-25, and the time of the day
Datetime(day, time) == [ day |-> day, time |-> time ]

\* datetime.strptime(due_date, "%Y-%m-%d"): midnight of the day, or ValueError
\* (None) for a text that is no date in this form
Strptime(due_date) ==
    CASE due_date = "2024-12-24" -> Some(Datetime(0 - 1, 0))
      [] due_date = "2024-12-25" -> Some(Datetime(0, 0))
      [] due_date = "2024-12-26" -> Some(Datetime(1, 0))
      [] due_date = "2025-12-25" -> Some(Datetime(365, 0))
      [] due_date = "2025-12-26" -> Some(Datetime(366, 0))
      [] due_date = "2025-12-27" -> Some(Datetime(367, 0))
      [] OTHER -> None

\* mutant: a <= b on datetimes
BeforeOrAt(a, b) == a.day < b.day \/ (a.day = b.day /\ a.time <= b.time)

\* a < b on datetimes
Before(a, b) == a.day < b.day \/ (a.day = b.day /\ a.time < b.time)

\* f"{confidence:.2f}"
Format2f(confidence) ==
    CASE confidence = 0 -> "0.00"
      [] confidence = 50 -> "0.50"
      [] confidence = 65 -> "0.65"
      [] OTHER -> "0.90"

ValidationIssue(field, message, severity) ==
    [ field |-> field, message |-> message, severity |-> severity ]

\* _validate_subject, lines 103-123
ValidateSubject(subject) ==
    IF ~Truthy(subject)
    THEN << ValidationIssue("subject", "Subject is missing", "error") >>
    ELSE IF Lower(subject[1]) \notin VALID_SUBJECTS
    THEN << ValidationIssue("subject", "Unrecognized subject: " \o subject[1], "warning") >>
    ELSE << >>

\* _validate_title, lines 125-151
ValidateTitle(title) ==
    IF ~Truthy(title)
    THEN << ValidationIssue("title", "Title is missing", "error") >>
    ELSE (IF Len(title[1]) < TitleMinLen
          THEN << ValidationIssue("title", "Title is too short", "warning") >> ELSE << >>)
         \o (IF Len(title[1]) > TitleMaxLen
             THEN << ValidationIssue("title", "Title is too long (max 200 chars)", "warning") >>
             ELSE << >>)

\* _validate_description, lines 153-175, for a description that is a str
ValidateDescription(description, raw_text) ==
    (IF description[1] = ""
     THEN << ValidationIssue("description", "Description is missing", "warning") >> ELSE << >>)
    \o (IF 2 * Len(description[1]) < Len(raw_text)
        THEN << ValidationIssue("description", "Description may be incomplete", "info") >>
        ELSE << >>)

\* _validate_due_date, lines 177-211
ValidateDueDate(due_date, at) ==
    IF ~Truthy(due_date) THEN << >>
    ELSE LET dt == Strptime(due_date[1])
         IN IF dt = None
            THEN << ValidationIssue("due_date", "Invalid date format: " \o due_date[1], "error") >>
            ELSE (IF dt[1].day < at.day
                  THEN << ValidationIssue("due_date", "Due date is in the past", "warning") >>
                  ELSE << >>)
                 \o (IF Before(Datetime(at.day + YearDays, at.time), dt[1])
                     THEN << ValidationIssue("due_date", "Due date is more than 1 year away",
                                             "warning") >>
                     ELSE << >>)

\* lines 80-87
ValidateConfidence(confidence) ==
    IF confidence < MinConfidence
    THEN << ValidationIssue("confidence", "Low confidence score: " \o Format2f(confidence),
                            "warning") >>
    ELSE << >>

\* _generate_suggestions, lines 213-237
GenerateSuggestions(extraction, issues) ==
    LET verify(issue) == issue.field = "subject" /\ issue.severity = "warning"
        verified == SelectSeq(issues, verify)
    IN (IF ~Truthy(Get(extraction, "subject", None))
        THEN << "Please specify the subject" >> ELSE << >>)
       \o (IF ~Truthy(Get(extraction, "due_date", None))
           THEN << "Consider adding a due date" >> ELSE << >>)
       \o (IF Get(extraction, "confidence", 0) < ReviewConfidence
           THEN << "Please review the extracted information for accuracy" >> ELSE << >>)
       \o [ k \in DOMAIN verified |-> "Verify subject name: " \o extraction.subject[1] ]

\* validate, lines 46-101; len(description) at line 168 raises TypeError for a
\* description that is None
DataValidatorValidate(extraction, raw_text, at) ==
    LET description == Get(extraction, "description", Some(""))
        confidence == Get(extraction, "confidence", 0)
    IN IF description = None
       THEN Exception("TypeError", "object of type 'NoneType' has no len()")
       ELSE LET issues == ValidateSubject(Get(extraction, "subject", Some("")))
                          \o ValidateTitle(Get(extraction, "title", Some("")))
                          \o ValidateDescription(description, raw_text)
                          \o ValidateDueDate(Get(extraction, "due_date", None), at)
                          \o ValidateConfidence(confidence)
                errors == SelectSeq(issues, LAMBDA i : i.severity = "error")
            IN [ kind |-> "result", valid |-> Len(errors) = 0, issues |-> issues,
                 confidence_score |-> confidence,
                 suggestions |-> GenerateSuggestions(extraction, issues) ]

\* the values a key of the dict may have; None is a null, and a key may be absent
Absent == << "absent" >>
SubjectValues == { Absent, None, Some("Mathematics"), Some("Alchemy") }
TitleValues == { Absent, Some(""), Some("Al"), Some("Algebra Homework"),
                 Some(Repeat("x", TitleMaxLen + 1)) }
DescriptionValues == { Absent, None, Some(""), Some("Do ex 1"), Some("Do exercises 1 and 2") }
DueDateValues ==
    { Absent, None, Some(""), Some("next Friday"), Some("2024-02-30") }
    \cup { Some(d) : d \in { "2024-12-24", "2024-12-25", "2024-12-26",
                             "2025-12-25", "2025-12-26", "2025-12-27" } }
ConfidenceValues == { 50, 65, 90 }
RawTexts == { "", "Do exercises 1 and 2" }

\* the dict with the keys that are not absent, without a confidence
Dict(subject, title, description, due_date) ==
    LET all == [ subject |-> subject, title |-> title, description |-> description,
                 due_date |-> due_date ]
        keys == { k \in DOMAIN all : all[k] # Absent }
    IN [ k \in keys |-> all[k] ]

\* the dict d with a confidence
WithConfidence(d, confidence) ==
    [ k \in DOMAIN d \cup { "confidence" } |-> IF k = "confidence" THEN confidence ELSE d[k] ]

\* the dicts given to validate
Dicts ==
    LET plain == { Dict(su, ti, de, du) :
                     su \in SubjectValues, ti \in TitleValues,
                     de \in DescriptionValues, du \in DueDateValues }
    IN plain \cup { WithConfidence(d, co) : d \in plain, co \in ConfidenceValues }

\* the days and the times of day of a call: midnight, or later in the day
Days == { 0, 1 }
Times == { 0, 1 }

ValidatorInit ==
    /\ extraction_dict \in Dicts
    /\ vraw_text \in RawTexts
    /\ vnow \in { Datetime(d, t) : d \in Days, t \in Times }
    /\ vresult = None

\* DataValidator.validate(extraction, raw_text)
ValidateCall ==
    /\ vresult = None
    /\ vresult' = Some(DataValidatorValidate(extraction_dict, vraw_text, vnow))
    /\ UNCHANGED << extraction_dict, vraw_text, vnow, notVal >>

ValidatorNext == ValidateCall

ValidatorStart ==
    BatchIdle /\ EnsIdle /\ SelIdle /\ RedIdle /\ AdapterIdle /\ MergeIdle /\ ValidatorInit

ValidatorSpec == ValidatorStart /\ [][ValidatorNext]_vars

\* ------------------------------------------------------------- C24
\* C24: validate returns a result and does not raise, and the result is valid
\* exactly when none of its issues has severity 'error'.
C24_ValidIffNoErrorIssue ==
    vresult # None =>
        /\ vresult[1].kind = "result"
        /\ vresult[1].valid
              <=> (\A k \in DOMAIN vresult[1].issues : vresult[1].issues[k].severity # "error")

\* ------------------------------------------------------------- C25
\* validate returned for a due_date in YYYY-MM-DD form
DueDateChecked ==
    /\ vresult # None
    /\ vresult[1].kind = "result"
    /\ Truthy(Get(extraction_dict, "due_date", None))
    /\ Strptime(extraction_dict.due_date[1]) # None

\* the due date is this many days after the day of the call
DueIn(days) == Strptime(extraction_dict.due_date[1])[1].day = vnow.day + days

Flagged(message) ==
    \E k \in DOMAIN vresult[1].issues :
        vresult[1].issues[k].field = "due_date" /\ vresult[1].issues[k].message = message

\* C25: at every time of day, a due date of today is not flagged as in the
\* past and one of yesterday is; a due date 365 days after today is not
\* flagged as more than a year away and one 366 days after today is.
C25_DueDateBoundaries ==
    DueDateChecked =>
        /\ DueIn(0) => ~Flagged("Due date is in the past")
        /\ DueIn(0 - 1) => Flagged("Due date is in the past")
        /\ DueIn(365) => ~Flagged("Due date is more than 1 year away")
        /\ DueIn(366) => Flagged("Due date is more than 1 year away")

\* at midnight exactly, a due date 365 days after today is left unflagged
C25_Witness ==
    /\ DueDateChecked
    /\ vnow = Datetime(0, 0)
    /\ DueIn(365)
    /\ ~Flagged("Due date is more than 1 year away")
    /\ ~Flagged("Due date is in the past")

\* ------------------------------------------------------------- C26
\* C26: validate returns one suggestion for each issue and none without an
\* issue: as many suggestions as issues.
C26_SuggestionPerIssue ==
    (vresult # None /\ vresult[1].kind = "result") =>
        Len(vresult[1].suggestions) = Len(vresult[1].issues)

\* ------------------------------------------------------------- C27
\* the results of the engines of a traditional call that did not raise
GoodRuns(c) ==
    LET ok(r) == r.outcome.kind = "result"
        good == SelectSeq(c.detail, ok)
    IN [ k \in DOMAIN good |-> good[k].outcome ]

TraditionalReturned(c) == c.path = "traditional" /\ c.outcome.kind = "result"

EnsembleOver == ephase \in {"returned", "raised"} /\ Cardinality(DOMAIN etask) = 2

\* the engines whose call returned, together before gemini
Registered ==
    SelectSeq(<< "together", "gemini" >>, LAMBDA n : ereply[n][1].kind = "result")

\* C28: the results handed to the merge are those of the engines that
\* returned, in registration order, whatever the order of completion, and the
\* outcome of the call is the merge of the replies in that order.
C28_MergeInputInRegistrationOrder ==
    EnsembleOver =>
        /\ valid_results = [ k \in DOMAIN Registered |->
                               [ name |-> Registered[k],
                                 raw_text |-> ereply[Registered[k]][1].raw_text,
                                 extraction |-> ereply[Registered[k]][1].extraction ] ]
        /\ Len(valid_results) = 2 =>
              /\ eresult[1].structured = EnsembleMerge(valid_results).structured
              /\ eresult[1].structured.extraction_metadata[1].engines_used
                    = << "together", "gemini" >>

\* gemini completed first and together is still the first result of the merge
C28_Witness ==
    /\ EnsembleOver
    /\ completion = << "gemini", "together" >>
    /\ Len(valid_results) = 2
    /\ valid_results[1].name = "together"
    /\ valid_results[1].extraction.due_date # valid_results[2].extraction.due_date
    /\ eresult[1].structured.due_date = valid_results[1].extraction.due_date

\* ------------------------------------------------------------- C29
\* C29: an item's error is set exactly when its status is 'failed'; a
\* completed or failed item has both timestamps; a pending item has no
\* timestamp and no ocr_result, extraction or validation; an item in
\* processing has started_at and no completed_at.
C29_ItemFieldsFollowStatus ==
    \A i \in DOMAIN batch_items :
        LET item == batch_items[i]
        IN /\ item.error # None <=> item.status = "failed"
           /\ item.status \in {"completed", "failed"} =>
                 item.started_at # None /\ item.completed_at # None
           /\ item.status = "pending" =>
                 /\ item.started_at = None /\ item.completed_at = None
                 /\ item.ocr_result = None /\ item.extraction = None
                 /\ item.validation = None
           /\ item.status = "processing" =>
                 item.started_at # None /\ item.completed_at = None

\* the first item of a batch has failed while the second is in processing
C29_Witness ==
    /\ Len(batch_items) = 2
    /\ batch_items[1].status = "failed"
    /\ batch_items[1].error # None
    /\ batch_items[1].completed_at # None
    /\ batch_items[2].status = "processing"
    /\ batch_items[2].started_at # None

\* ------------------------------------------------------------- C30
\* C30: extract_homework of OpenAIProcessor and GeminiProcessor ends, on every
\* OCR text, the empty text included, by returning a parsed extraction or the
\* fallback result, and not by raising.
C30_ExtractHomeworkReturns ==
    (adapter \in { "openai", "gemini" } /\ tphase \in {"returned", "raised"}) =>
        tresult[1].kind = "result"

====
